---------------------------- MODULE Spec2Model ----------------------------
(***************************************************************************)
(* A model of hajiman: a prefix-code library mapping fixed-width symbols   *)
(* to sequences of letters of unequal cost, and letters to text tokens.    *)
(*                                                                         *)
(* The module holds several specifications over one set of variables:      *)
(*   SpecTree   build_tree on arbitrary (label, code) lists                *)
(*   Spec       a LexingIter pulled over chunked input (cont)              *)
(*   SpecBits   Bits::iter_bytes followed by Bits::concat into a Vec       *)
(*   SpecBuild  CharacterCounter, finish and Encoding::build               *)
(*   SpecJimi   JimiEncoding::new, its encoder and decoder, encode, decode *)
(*   SpecConcat Bits::concat over Ok and Err items into a writer           *)
(*   SpecLexer  StringLexer::new on token tables                           *)
(*   SpecNew    JimiEncoding::new on token tables (the letter costs)       *)
(*   SpecLoad   JimiEncoding::decoder of a deserialized encoding           *)
(*   SpecText   JimiDecoder::decode_to_bits over texts                     *)
(*   SpecState  the JimiState of the web UI: update and encode             *)
(*   SpecCodec  Encoder::encode followed by Decoder::decode                *)
(*   SpecCount  CharacterCounter::count and finish                         *)
(*   SpecAccu   the frequency table of test_character_frequency            *)
(*   SpecLetters LetterCosts::build on cost vectors                        *)
(*   SpecCli    the command line: the encoding as JSON, encode and decode  *)
(*   SpecTable  BitsMap made by new, by map and by deserializing           *)
(*   SpecCode   Encoding::build with the calls of code kept                *)
(*   SpecSmooth CharacterCounter::finish by number of uncounted symbols    *)
(*   SpecCounter CharacterCounter: empty, all_equal, count_one and count   *)
(*   SpecIter   BitsIter: closed_interval and begin_zero pulled to the end *)
(*   SpecStream cli::decode over split reads, and run for Decode           *)
(* A specification leaves the variables of the others at their idle value. *)
(***************************************************************************)
EXTENDS Integers, Sequences, FiniteSets, TLC

VARIABLES
    suffice,        \* build_tree: the (label, code) pairs handed to it
    code_letters,   \* build_tree: the letter alphabet handed to it
    tree,           \* build_tree: its result (a map of trees, an error, an abort)
    lexer,          \* the lexer a LexingIter borrows: map kind, iterator variant
    iter,           \* LexingIter: roots, current_tree, prefix, incoming
    chunks,         \* input not yet handed to the iterator (the next chunk)
    hist,           \* history of the pulls: items returned, letters read
    width,          \* Bits::N of the symbol type in use: 4, 6 or 8
    arr,            \* the byte slice given to iter_bytes
    padded,         \* Padded: data (the symbols) and original_length
    sink,           \* the writer given to concat and concat's result
    counter,        \* CharacterCounter: counts and total
    letter_costs,   \* LetterCosts: costs and c
    frequency,      \* the result of CharacterCounter::finish
    encoding,       \* the result of Encoding::build
    jimi,           \* JimiEncoding: tokens and encoding (and the width B::N)
    jimi_encoder,   \* JimiEncoder: chunk and char2code
    jimi_decoder,   \* the result of JimiEncoding::decoder
    plain,          \* the bytes given to JimiEncoder::encode
    cipher,         \* the Padded returned by encode: token slices, length
    decoded         \* the result of JimiDecoder::decode and the bytes written

treeVars == <<suffice, code_letters, tree>>
lexVars  == <<lexer, iter, chunks, hist>>
bitsVars == <<width, arr, padded, sink>>
buildVars == <<counter, frequency, letter_costs, encoding>>
jimiVars == <<jimi, jimi_encoder, jimi_decoder, plain, cipher, decoded>>
vars     == <<suffice, code_letters, tree, lexer, iter, chunks, hist,
              width, arr, padded, sink, counter, frequency, letter_costs,
              encoding,
              jimi, jimi_encoder, jimi_decoder, plain, cipher, decoded>>

Nil == [nil |-> TRUE]

\* The value of each group of variables in a specification that does not
\* use it.
TreeIdle == suffice = <<>> /\ code_letters = {} /\ tree = Nil
LexIdle  == lexer = Nil /\ iter = Nil /\ chunks = <<>> /\ hist = Nil
BitsIdle == width = 0 /\ arr = <<>> /\ padded = Nil /\ sink = Nil

BuildIdle ==
    counter = Nil /\ frequency = Nil /\ letter_costs = Nil /\ encoding = Nil
JimiIdle ==
    /\ jimi = Nil /\ jimi_encoder = Nil /\ jimi_decoder = Nil
    /\ plain = <<>> /\ cipher = Nil /\ decoded = Nil

\* The variables a specification leaves alone, and their value in it.
notTreeVars  == <<lexVars, bitsVars, buildVars, jimiVars>>
notLexVars   == <<treeVars, bitsVars, buildVars, jimiVars>>
notBitsVars  == <<treeVars, lexVars, buildVars, jimiVars>>
notBuildVars == <<treeVars, lexVars, bitsVars, jimiVars>>
notJimiVars  == <<treeVars, lexVars, bitsVars, buildVars>>
NotTreeIdle  == LexIdle /\ BitsIdle /\ BuildIdle /\ JimiIdle
NotLexIdle   == TreeIdle /\ BitsIdle /\ BuildIdle /\ JimiIdle
NotBitsIdle  == TreeIdle /\ LexIdle /\ BuildIdle /\ JimiIdle
NotBuildIdle == TreeIdle /\ LexIdle /\ BitsIdle /\ JimiIdle
NotJimiIdle  == TreeIdle /\ LexIdle /\ BitsIdle /\ BuildIdle

(***************************************************************************)
(* Bounds of the model.                                                    *)
(***************************************************************************)
MaxCodes   == 2     \* SpecTree: pairs in one build_tree input
MaxCodeLen == 3     \* SpecTree: letters in one code
MaxInput   == 4     \* Spec: items fed to a LexingIter, over all chunks

\* The letters a code is made of, and one letter outside every alphabet.
Letters   == {0, 1}
InLetters == {0, 1, 2}

SeqsUpTo(S, n) == UNION {[1..k -> S] : k \in 0..n}

IsPrefix(s, t) == Len(s) <= Len(t) /\ SubSeq(t, 1, Len(s)) = s
IsStrictPrefix(s, t) == Len(s) < Len(t) /\ SubSeq(t, 1, Len(s)) = s

(***************************************************************************)
(* lexing.rs: Code                                                         *)
(***************************************************************************)
\* Code::tail: Some(the letters after the first) when there are at least
\* two letters, None otherwise.
HasTail(code)  == Len(code) >= 2
CodeTail(code) == SubSeq(code, 2, Len(code))

(***************************************************************************)
(* lexing.rs: Layer, the per-letter state while build_tree groups its      *)
(* input by first letter.                                                  *)
(***************************************************************************)
LayerInvalid  == [tag |-> "Invalid", leaf |-> Nil, v |-> <<>>]
LayerLeaf(l)  == [tag |-> "Leaf", leaf |-> l, v |-> <<>>]
LayerInner(v) == [tag |-> "Inner", leaf |-> Nil, v |-> v]

\* A variant of or_inner that starts every Inner node anew, without the
\* suffixes filed before.
or_inner_anew(node) ==
    IF node.tag = "Leaf"
    THEN [ok |-> FALSE, node |-> node]
    ELSE [ok |-> TRUE, node |-> LayerInner(<<>>)]

\* Layer::or_inner: the node as an Inner node, created when Invalid;
\* NonPrefixFreeError on a Leaf.
or_inner(node) ==
    CASE node.tag = "Inner"   -> [ok |-> TRUE, node |-> node]
      [] node.tag = "Leaf"    -> [ok |-> FALSE, node |-> node]
      [] node.tag = "Invalid" -> [ok |-> TRUE, node |-> LayerInner(<<>>)]

\* A variant of or_leaf_set_to that overwrites an Inner node.
or_leaf_set_to_overwrite(node, leaf) == [ok |-> TRUE, node |-> LayerLeaf(leaf)]

\* Layer::or_leaf_set_to: NonPrefixFreeError on an Inner node; any other
\* node (Invalid, or a Leaf set before) becomes Leaf(leaf).
or_leaf_set_to(node, leaf) ==
    IF node.tag = "Inner"
    THEN [ok |-> FALSE, node |-> node]
    ELSE [ok |-> TRUE, node |-> LayerLeaf(leaf)]

(***************************************************************************)
(* lexing.rs: Tree                                                         *)
(***************************************************************************)
TreeInvalid  == [tag |-> "Invalid", label |-> Nil, map |-> <<>>]
TreeLeaf(l)  == [tag |-> "Leaf", label |-> l, map |-> <<>>]
TreeInner(m) == [tag |-> "Inner", label |-> Nil, map |-> m]

\* Results of build_tree: Ok(map), Err(NonPrefixFreeError), or a panic
\* (Code::head on an empty code, Map::get_mut on a letter not in the map).
BuiltOk(m)   == [st |-> "Ok", map |-> m]
BuiltNonPrefixFree == [st |-> "NonPrefixFreeError", map |-> <<>>]
BuiltPanic   == [st |-> "panic", map |-> <<>>]

\* One turn of the first loop of build_tree: the pair is filed under the
\* first letter of its code, as a leaf or as a suffix of an inner node.
GroupPair(layer, pair) ==
    LET l    == pair[1]
        code == pair[2]
    IN  IF code = <<>> \/ code[1] \notin DOMAIN layer
        THEN [st |-> "panic", layer |-> layer]
        ELSE
            LET head == code[1]
                tail == CodeTail(code)
            IN  IF HasTail(code)
                THEN LET r == or_inner(layer[head])
                     IN  IF ~r.ok
                         THEN [st |-> "NonPrefixFreeError", layer |-> layer]
                         ELSE [st |-> "Ok",
                               layer |-> [layer EXCEPT ![head] =
                                    LayerInner(Append(r.node.v, <<l, tail>>))]]
                ELSE LET r == or_leaf_set_to(layer[head], l)
                     IN  IF ~r.ok
                         THEN [st |-> "NonPrefixFreeError", layer |-> layer]
                         ELSE [st |-> "Ok", layer |-> [layer EXCEPT ![head] = r.node]]

\* The turns of the loop for the pairs lo..hi in their order (the lower
\* half, then the upper half), from the layer acc; the loop ends at the
\* first failure.
RECURSIVE GroupRange(_, _, _, _)
GroupRange(pairs, lo, hi, acc) ==
    IF acc.st # "Ok" \/ lo > hi THEN acc
    ELSE IF lo = hi THEN GroupPair(acc.layer, pairs[lo])
    ELSE LET mid == (lo + hi) \div 2
         IN  GroupRange(pairs, mid + 1, hi, GroupRange(pairs, lo, mid, acc))

\* The first loop of build_tree, from pair i on.
GroupByHead(pairs, i, layer) ==
    GroupRange(pairs, i, Len(pairs), [st |-> "Ok", layer |-> layer])

\* build_tree: the trie of the pairs over the alphabet letters.  The
\* second loop turns each layer node into a tree, building the inner
\* nodes recursively and returning at the first failure in key order.
RECURSIVE build_tree(_, _)
build_tree(pairs, letters) ==
    LET g == GroupByHead(pairs, 1, [k \in letters |-> LayerInvalid])
    IN  IF g.st = "panic" THEN BuiltPanic
        ELSE IF g.st = "NonPrefixFreeError" THEN BuiltNonPrefixFree
        ELSE
            LET sub == [k \in letters |->
                          IF g.layer[k].tag = "Inner"
                          THEN build_tree(g.layer[k].v, letters)
                          ELSE BuiltOk(<<>>)]
                bad == {k \in letters : sub[k].st # "Ok"}
            IN  IF bad # {}
                THEN LET k0 == CHOOSE k \in bad : \A j \in bad : k <= j
                     IN  IF sub[k0].st = "panic" THEN BuiltPanic
                         ELSE BuiltNonPrefixFree
                ELSE BuiltOk([k \in letters |->
                        CASE g.layer[k].tag = "Leaf"    -> TreeLeaf(g.layer[k].leaf)
                          [] g.layer[k].tag = "Invalid" -> TreeInvalid
                          [] g.layer[k].tag = "Inner"   -> TreeInner(sub[k].map)])


(***************************************************************************)
(* lexing/map.rs: Map::get of the two maps.  The hash map answers None     *)
(* for a key it does not hold; the dense LetterIdIndexed map indexes its   *)
(* vector, which panics for an index past its end.                         *)
(***************************************************************************)
MapGet(kind, m, k) ==
    IF k \in DOMAIN m THEN [st |-> "Some", t |-> m[k]]
    ELSE IF kind = "hash" THEN [st |-> "None", t |-> TreeInvalid]
    ELSE [st |-> "panic", t |-> TreeInvalid]

(***************************************************************************)
(* lexing.rs: Error, and the items a LexingIter returns.  "None" is the    *)
(* end of the sequence; "panic" stands for the process aborting inside     *)
(* the pull.                                                               *)
(***************************************************************************)
Item(kind, label, prefix, letter, err) ==
    [kind |-> kind, label |-> label, prefix |-> prefix, letter |-> letter, err |-> err]
ItemOk(l)            == Item("Ok", l, <<>>, -1, "")
ItemInvalid(i)       == Item("Invalid", -1, <<>>, i, "")
ItemUnexpected(p, i) == Item("Unexpected", -1, p, i, "")
ItemUnexpectedTermination(p) == Item("UnexpectedTermination", -1, p, -1, "")
ItemParent(e)        == Item("Parent", -1, <<>>, -1, e)
ItemNone             == Item("None", -1, <<>>, -1, "")
ItemPanic            == Item("panic", -1, <<>>, -1, "")

\* Items of the input of iter_from_error::LexingIter: Ok(letter) or Err(e).
InOk(i)  == [ok |-> TRUE, i |-> i, e |-> ""]
InErr(e) == [ok |-> FALSE, i |-> -1, e |-> e]

(***************************************************************************)
(* lexing.rs: LexingIter (both modules): new, cont, next.                  *)
(***************************************************************************)
LexingIter(roots, current_tree, prefix, incoming) ==
    [roots |-> roots, current_tree |-> current_tree,
     prefix |-> prefix, incoming |-> incoming]

new(roots, incoming) == LexingIter(roots, roots, <<>>, incoming)

\* A variant of cont that starts again from the root.
cont_from_root(it, incoming) == new(it.roots, incoming)

\* cont with f = |_| incoming, as cli::decode calls it: the source is
\* replaced, every other field is kept.
cont(it, incoming) ==
    LexingIter(it.roots, it.current_tree, it.prefix, incoming)

\* A variant of at_end that ends the sequence whatever the prefix.
at_end_none(it) == ItemNone

\* The tail of next, reached when incoming.next() is None.
at_end(it) ==
    IF it.prefix = <<>> THEN ItemNone ELSE ItemUnexpectedTermination(it.prefix)

\* A variant of on_letter in which Unexpected resets the walk to the root.
on_letter_reset(kind, it, i) ==
    LET g == MapGet(kind, it.current_tree, i)
    IN  CASE g.st = "panic" -> [ret |-> TRUE, item |-> ItemPanic, iter |-> it]
          [] g.st = "None"  -> [ret |-> TRUE, item |-> ItemInvalid(i), iter |-> it]
          [] g.st = "Some" /\ g.t.tag = "Invalid" ->
                [ret |-> TRUE, item |-> ItemUnexpected(it.prefix, i),
                 iter |-> [it EXCEPT !.prefix = <<>>, !.current_tree = it.roots]]
          [] g.st = "Some" /\ g.t.tag = "Leaf" ->
                [ret |-> TRUE, item |-> ItemOk(g.t.label),
                 iter |-> [it EXCEPT !.prefix = <<>>, !.current_tree = it.roots]]
          [] g.st = "Some" /\ g.t.tag = "Inner" ->
                [ret |-> FALSE, item |-> ItemNone,
                 iter |-> [it EXCEPT !.prefix = Append(@, i),
                                     !.current_tree = g.t.map]]

\* A variant of on_letter that goes down to an Inner node without pushing
\* the letter to prefix.
on_letter_no_push(kind, it, i) ==
    LET g == MapGet(kind, it.current_tree, i)
    IN  CASE g.st = "panic" -> [ret |-> TRUE, item |-> ItemPanic, iter |-> it]
          [] g.st = "None"  -> [ret |-> TRUE, item |-> ItemInvalid(i), iter |-> it]
          [] g.st = "Some" /\ g.t.tag = "Invalid" ->
                [ret |-> TRUE, item |-> ItemUnexpected(it.prefix, i), iter |-> it]
          [] g.st = "Some" /\ g.t.tag = "Leaf" ->
                [ret |-> TRUE, item |-> ItemOk(g.t.label),
                 iter |-> [it EXCEPT !.prefix = <<>>, !.current_tree = it.roots]]
          [] g.st = "Some" /\ g.t.tag = "Inner" ->
                [ret |-> FALSE, item |-> ItemNone,
                 iter |-> [it EXCEPT !.current_tree = g.t.map]]

\* A variant of on_letter that stays at the leaf's parent after a label.
on_letter_no_root(kind, it, i) ==
    LET g == MapGet(kind, it.current_tree, i)
    IN  CASE g.st = "panic" -> [ret |-> TRUE, item |-> ItemPanic, iter |-> it]
          [] g.st = "None"  -> [ret |-> TRUE, item |-> ItemInvalid(i), iter |-> it]
          [] g.st = "Some" /\ g.t.tag = "Invalid" ->
                [ret |-> TRUE, item |-> ItemUnexpected(it.prefix, i), iter |-> it]
          [] g.st = "Some" /\ g.t.tag = "Leaf" ->
                [ret |-> TRUE, item |-> ItemOk(g.t.label),
                 iter |-> [it EXCEPT !.prefix = <<>>]]
          [] g.st = "Some" /\ g.t.tag = "Inner" ->
                [ret |-> FALSE, item |-> ItemNone,
                 iter |-> [it EXCEPT !.prefix = Append(@, i),
                                     !.current_tree = g.t.map]]

\* The match on current_tree.get(&i) in next, for the letter i just taken
\* from incoming: whether next returns, with what, and the fields after.
on_letter(kind, it, i) ==
    LET g == MapGet(kind, it.current_tree, i)
    IN  CASE g.st = "panic" -> [ret |-> TRUE, item |-> ItemPanic, iter |-> it]
          [] g.st = "None"  -> [ret |-> TRUE, item |-> ItemInvalid(i), iter |-> it]
          [] g.st = "Some" /\ g.t.tag = "Invalid" ->
                [ret |-> TRUE, item |-> ItemUnexpected(it.prefix, i), iter |-> it]
          [] g.st = "Some" /\ g.t.tag = "Leaf" ->
                [ret |-> TRUE, item |-> ItemOk(g.t.label),
                 iter |-> [it EXCEPT !.prefix = <<>>, !.current_tree = it.roots]]
          [] g.st = "Some" /\ g.t.tag = "Inner" ->
                [ret |-> FALSE, item |-> ItemNone,
                 iter |-> [it EXCEPT !.prefix = Append(@, i),
                                     !.current_tree = g.t.map]]

\* iter::LexingIter::next: the iterator after the pull and the item.
RECURSIVE iter_next(_, _)
iter_next(kind, it) ==
    IF it.incoming = <<>> THEN [iter |-> it, item |-> at_end(it)]
    ELSE
        LET i    == Head(it.incoming)
            took == [it EXCEPT !.incoming = Tail(@)]
            r    == on_letter(kind, took, i)
        IN  IF r.ret THEN [iter |-> r.iter, item |-> r.item]
            ELSE iter_next(kind, r.iter)

\* iter_from_error::LexingIter::next: as iter_next over Result items; an
\* Err(e) of the source is returned as Parent(e).
RECURSIVE iter_from_error_next(_, _)
iter_from_error_next(kind, it) ==
    IF it.incoming = <<>> THEN [iter |-> it, item |-> at_end(it)]
    ELSE
        LET x    == Head(it.incoming)
            took == [it EXCEPT !.incoming = Tail(@)]
        IN  IF ~x.ok THEN [iter |-> took, item |-> ItemParent(x.e)]
            ELSE
                LET r == on_letter(kind, took, x.i)
                IN  IF r.ret THEN [iter |-> r.iter, item |-> r.item]
                    ELSE iter_from_error_next(kind, r.iter)

next(lx, it) ==
    IF lx.variant = "iter" THEN iter_next(lx.kind, it)
    ELSE iter_from_error_next(lx.kind, it)


(***************************************************************************)
(* Spec: one LexingIter over a trie, pulled by its caller and handed       *)
(* further input with cont.                                                *)
(***************************************************************************)
\* lexing/string_lexer.rs, test_tokens: "aa", "aba", "abb", "baa", "bb"
\* with a = 0 and b = 1; the label of a code is its position.
TestTokens == << <<0, 0>>, <<0, 1, 0>>, <<0, 1, 1>>, <<1, 0, 0>>, <<1, 1>> >>
\* A table with a one-letter code and an Invalid node below the root.
ShortTokens == << <<0>>, <<1, 0>> >>

LexTables == {TestTokens, ShortTokens}

Labelled(codes) == [k \in 1..Len(codes) |-> <<k - 1, codes[k]>>]

LettersOf(codes) == UNION {{codes[k][j] : j \in 1..Len(codes[k])} : k \in 1..Len(codes)}

\* StringLexer::new builds the hash-map trie over the characters of the
\* tokens; Decoder::from_encoding the dense trie over n_letters.before().
AlphabetOf(kind, codes) ==
    IF kind = "hash" THEN LettersOf(codes)
    ELSE 0..(Cardinality(LettersOf(codes)) - 1)

Lexers ==
    [kind : {"hash", "dense"}, variant : {"iter", "iter_from_error"},
     codes : LexTables]

InItems == {InOk(i) : i \in InLetters} \cup {InErr("e")}

Inputs(variant, n) ==
    IF variant = "iter" THEN SeqsUpTo(InLetters, n) ELSE SeqsUpTo(InItems, n)

RootsOf(lx) == build_tree(Labelled(lx.codes), AlphabetOf(lx.kind, lx.codes)).map

Panicked == hist.out # <<>> /\ hist.out[Len(hist.out)].kind = "panic"

Init ==
    /\ NotLexIdle
    /\ lexer \in Lexers
    /\ \E first \in Inputs(lexer.variant, MaxInput) :
          /\ iter = new(RootsOf(lexer), first)
          /\ hist = [out |-> <<>>, read |-> <<>>, clean |-> <<>>,
                     before |-> [current_tree |-> RootsOf(lexer), prefix |-> <<>>],
                     pulled |-> <<>>, conts |-> 0, cut |-> 0, idle |-> 0,
                     contPrefix |-> <<>>]
    /\ chunks = <<>>

\* The caller pulls the next item: Iterator::next of the LexingIter.
Pull ==
    /\ lexer # Nil
    /\ ~Panicked
    \* the caller pulls an exhausted iterator once, then stops or continues it
    /\ iter.incoming = <<>> => hist.idle = 0
    /\ LET r      == next(lexer, iter)
           n      == Len(iter.incoming) - Len(r.iter.incoming)
           pulled == SubSeq(iter.incoming, 1, n)
           offend == r.item.kind \in {"Invalid", "Unexpected", "Parent", "panic"}
       IN  /\ iter' = r.iter
           /\ hist' = [hist EXCEPT
                         !.out = Append(@, r.item),
                         !.read = @ \o pulled,
                         !.clean = @ \o (IF offend THEN SubSeq(pulled, 1, n - 1)
                                         ELSE pulled),
                         !.before = [current_tree |-> iter.current_tree,
                                     prefix |-> iter.prefix],
                         !.pulled = pulled,
                         !.idle = IF iter.incoming = <<>> THEN @ + 1 ELSE 0]
    /\ UNCHANGED <<lexer, chunks>>
    /\ UNCHANGED notLexVars

\* The caller continues the iterator over a second chunk of input, once
\* the first is used up (cli::decode: after the pulls of one read).
Cont ==
    /\ lexer # Nil
    /\ ~Panicked
    /\ hist.conts = 0
    /\ iter.incoming = <<>>
    /\ \E chunk \in Inputs(lexer.variant, MaxInput - Len(hist.read)) :
          /\ iter' = cont(iter, chunk)
          /\ hist' = [hist EXCEPT !.conts = @ + 1, !.cut = Len(hist.out),
                                  !.idle = 0, !.contPrefix = iter.prefix]
    /\ UNCHANGED <<lexer, chunks>>
    /\ UNCHANGED notLexVars

Next == Pull \/ Cont

Spec == Init /\ [][Next]_vars

(***************************************************************************)
(* SpecTree: build_tree on every list of at most MaxCodes pairs whose      *)
(* codes have at most MaxCodeLen letters (the empty code included).        *)
(***************************************************************************)
AllCodes == SeqsUpTo(Letters, MaxCodeLen)

InitTree ==
    /\ suffice = <<>>
    /\ code_letters = Letters
    /\ tree = Nil
    /\ NotTreeIdle

\* The caller adds one more (label, code) pair; the label is the position.
AddPair ==
    /\ tree = Nil
    /\ Len(suffice) < MaxCodes
    /\ \E code \in AllCodes : suffice' = Append(suffice, <<Len(suffice), code>>)
    /\ UNCHANGED <<code_letters, tree>>
    /\ UNCHANGED notTreeVars

BuildTree ==
    /\ tree = Nil
    /\ tree' = build_tree(suffice, code_letters)
    /\ UNCHANGED <<suffice, code_letters>>
    /\ UNCHANGED notTreeVars

NextTree == AddPair \/ BuildTree

SpecTree == InitTree /\ [][NextTree]_vars


(***************************************************************************)
(* Bit packing (bits_key/bits.rs).  A byte is a number in 0..255; u8       *)
(* arithmetic is taken modulo 256.                                         *)
(***************************************************************************)
RECURSIVE BitAnd(_, _)
BitAnd(a, b) ==
    IF a = 0 \/ b = 0 THEN 0
    ELSE (IF a % 2 = 1 /\ b % 2 = 1 THEN 1 ELSE 0) + 2 * BitAnd(a \div 2, b \div 2)

RECURSIVE BitOr(_, _)
BitOr(a, b) ==
    IF a = 0 THEN b
    ELSE IF b = 0 THEN a
    ELSE (IF a % 2 = 1 \/ b % 2 = 1 THEN 1 ELSE 0) + 2 * BitOr(a \div 2, b \div 2)

Shl(x, n) == (x * 2^n) % 256
Shr(x, n) == x \div 2^n

RECURSIVE gcd(_, _)
gcd(a, b) ==
    IF b = 0 THEN a
    ELSE IF b < a THEN gcd(b, a % b) ELSE gcd(a, b % a)

\* A variant of pad that pads to a multiple of n_bits bytes.
pad_to_n_bits(bytes, n_bits) ==
    LET pad_to == ((Len(bytes) + n_bits - 1) \div n_bits) * n_bits
    IN  bytes \o [k \in 1..(pad_to - Len(bytes)) |-> 0]

\* pad: the bytes followed by zeros up to a multiple of n_bits / gcd(8, n_bits).
pad(bytes, n_bits) ==
    LET lcm    == n_bits \div gcd(8, n_bits)
        pad_to == ((Len(bytes) + lcm - 1) \div lcm) * lcm
    IN  bytes \o [k \in 1..(pad_to - Len(bytes)) |-> 0]

\* A variant of array_chunks that fills the trailing incomplete group with
\* copies of the last item.
array_chunks_filled(q, n) ==
    [k \in 1..((Len(q) + n - 1) \div n) |->
        [j \in 1..n |-> q[IF (k - 1) * n + j <= Len(q) THEN (k - 1) * n + j
                          ELSE Len(q)]]]

\* Iterator::array_chunks::<n>: the complete groups of n items; the items
\* left over are dropped.
array_chunks(q, n) ==
    [k \in 1..(Len(q) \div n) |-> SubSeq(q, (k - 1) * n + 1, k * n)]

RECURSIVE Flatten(_)
Flatten(qq) == IF qq = <<>> THEN <<>> ELSE Head(qq) \o Flatten(Tail(qq))

Bits8_iter_bytes(a) ==
    [data |-> a, original_length |-> Len(a)]

\* The four symbols of a group with the last six bits first.
Bits6_group_low(c) ==
    << BitAnd(c[3], 63),
       BitOr(Shl(BitAnd(c[2], 15), 2), Shr(c[3], 6)),
       BitOr(Shl(BitAnd(c[1], 3), 4), Shr(c[2], 4)),
       Shr(c[1], 2) >>

Bits6_group(c) ==
    << Shr(c[1], 2),
       BitOr(Shl(BitAnd(c[1], 3), 4), Shr(c[2], 4)),
       BitOr(Shl(BitAnd(c[2], 15), 2), Shr(c[3], 6)),
       BitAnd(c[3], 63) >>

Bits6_iter_bytes(a) ==
    LET chunked == array_chunks(pad(a, 6), 3)
    IN  [data |-> Flatten([k \in 1..Len(chunked) |-> Bits6_group(chunked[k])]),
         original_length |-> Len(a)]

Bits4_iter_bytes(a) ==
    [data |-> Flatten([k \in 1..Len(a) |-> << Shr(a[k], 4), BitAnd(a[k], 15) >>]),
     original_length |-> Len(a)]

iter_bytes(n, a) ==
    CASE n = 8 -> Bits8_iter_bytes(a)
      [] n = 6 -> Bits6_iter_bytes(a)
      [] n = 4 -> Bits4_iter_bytes(a)

\* The items of the iterator given to concat: Ok(symbol) or Err(e).
SymOk(x)  == [ok |-> TRUE, x |-> x, e |-> ""]
SymErr(e) == [ok |-> FALSE, x |-> 0, e |-> e]

ConcatOk(w)        == [st |-> "Ok", e |-> "", written |-> w]
ConcatParent(e, w) == [st |-> "Parent", e |-> e, written |-> w]
ConcatIo(w)        == [st |-> "Io", e |-> "", written |-> w]

\* The bytes written for one group of symbols.
GroupBytes(n, g) ==
    CASE n = 8 -> << g[1].x >>
      [] n = 6 -> << BitOr(Shl(g[1].x, 2), Shr(g[2].x, 4)),
                     BitOr(Shl(BitAnd(g[2].x, 15), 4), Shr(g[3].x, 2)),
                     BitOr(Shl(BitAnd(g[3].x, 3), 6), g[4].x) >>
      [] n = 4 -> << BitOr(Shl(g[1].x, 4), g[2].x) >>

GroupSize(n) == CASE n = 8 -> 1 [] n = 6 -> 4 [] n = 4 -> 2

\* An io::Write: the bytes it has taken and the number of calls of write
\* it still accepts before it returns an error; a Vec<u8> accepts every
\* call (room -1).
Writer(written, room) == [written |-> written, room |-> room]
VecWriter(w) == Writer(w, -1)

\* Write::write of a writer that takes the whole buffer or fails.
write(wr, bytes) ==
    IF wr.room = 0 THEN [ok |-> FALSE, wr |-> wr]
    ELSE [ok |-> TRUE,
          wr |-> Writer(wr.written \o bytes,
                        IF wr.room > 0 THEN wr.room - 1 ELSE wr.room)]

\* The loop of concat over the groups: the first Err item of a group ends
\* it with ConcatError::Parent, otherwise the group's bytes are written,
\* and a failed write ends it with ConcatError::Io.
RECURSIVE concat_groups(_, _, _)
RECURSIVE concat_write(_, _, _, _)
concat_groups(n, groups, wr) ==
    IF groups = <<>> THEN ConcatOk(wr.written)
    ELSE LET g    == Head(groups)
             errs == {k \in 1..Len(g) : ~g[k].ok}
         IN  IF errs # {}
             THEN ConcatParent(g[CHOOSE k \in errs : \A j \in errs : k <= j].e,
                               wr.written)
             ELSE concat_write(n, Tail(groups), wr, write(wr, GroupBytes(n, g)))

concat_write(n, groups, wr, r) ==
    IF ~r.ok THEN ConcatIo(wr.written) ELSE concat_groups(n, groups, r.wr)

\* Bits::concat into a writer.
concat_to(n, it, wr) == concat_groups(n, array_chunks(it, GroupSize(n)), wr)

\* Bits::concat into a Vec<u8> holding w.
concat(n, it, w) == concat_to(n, it, VecWriter(w))

(***************************************************************************)
(* SpecBits: a byte slice is turned into symbols by iter_bytes and the     *)
(* symbols are written back by concat.                                     *)
(***************************************************************************)
MaxBytes == 4

\* The bytes of test_iter_bytes, and the two extreme bytes.
ByteValues == {0, 73, 182, 50, 234, 255}
Widths == {4, 6, 8}

InitBits ==
    /\ width \in Widths
    /\ arr \in SeqsUpTo(ByteValues, MaxBytes)
    /\ padded = Nil
    /\ sink = Nil
    /\ NotBitsIdle

IterBytes ==
    /\ width # 0
    /\ padded = Nil
    /\ padded' = iter_bytes(width, arr)
    /\ UNCHANGED <<width, arr, sink>>
    /\ UNCHANGED notBitsVars

Concat ==
    /\ width # 0
    /\ padded # Nil
    /\ sink = Nil
    /\ sink' = concat(width, [k \in 1..Len(padded.data) |-> SymOk(padded.data[k])], <<>>)
    /\ UNCHANGED <<width, arr, padded>>
    /\ UNCHANGED notBitsVars

NextBits == IterBytes \/ Concat

SpecBits == InitBits /\ [][NextBits]_vars


(***************************************************************************)
(* SpecConcat: concat is given a sequence of Ok and Err items, yielded one *)
(* by one into padded.data, and a writer, held in sink until the call.     *)
(***************************************************************************)
MaxItems == 5

\* Symbols of every width, and two upstream errors.
ItemSymbols == {0, 5, 15}
ItemErrors  == {"e1", "e2"}
\* The writers: a Vec<u8>, one that fails at once, one that fails on the
\* second write.
Rooms == {-1, 0, 1}

InitConcat ==
    /\ width \in Widths
    /\ arr = <<>>
    /\ padded = [data |-> <<>>, original_length |-> 0]
    /\ \E room \in Rooms : sink = Writer(<<>>, room)
    /\ NotBitsIdle

Called == "st" \in DOMAIN sink

\* The source of concat yields one more item.
Yield ==
    /\ width # 0
    /\ ~Called
    /\ Len(padded.data) < MaxItems
    /\ \E x \in {SymOk(b) : b \in ItemSymbols} \cup {SymErr(e) : e \in ItemErrors} :
          padded' = [padded EXCEPT !.data = Append(@, x)]
    /\ UNCHANGED <<width, arr, sink>>
    /\ UNCHANGED notBitsVars

\* Bits::concat over the items yielded.
ConcatItems ==
    /\ width # 0
    /\ ~Called
    /\ sink' = concat_to(width, padded.data, sink) @@ [room |-> sink.room]
    /\ UNCHANGED <<width, arr, padded>>
    /\ UNCHANGED notBitsVars

NextConcat == Yield \/ ConcatItems

SpecConcat == InitConcat /\ [][NextConcat]_vars


(***************************************************************************)
(* f32 arithmetic.  A non-negative f32 is [m, e] with value m * 2^e, where *)
(* m = 0 (and e = 0) or 2^23 <= m < 2^24.  Every operation returns the     *)
(* exact result rounded to nearest, ties to even, as IEEE 754 does.  The   *)
(* values of the model stay far from the overflow and underflow            *)
(* thresholds, so the exponent is not limited.  The operations work on     *)
(* numbers below 2^31.                                                     *)
(***************************************************************************)
F32(m, e) == [m |-> m, e |-> e]
F32Zero == F32(0, 0)

\* The number of bits of x, for 0 <= x < 2^31.
BitLen(x) == IF x = 0 THEN 0 ELSE CHOOSE n \in 1..31 : x \div 2^(n - 1) = 1

\* x * 2^e rounded; an odd x stands for any value strictly between x - 1
\* and x + 1 when the caller dropped non-zero bits below it.
Round(x, e) ==
    LET n == BitLen(x)
    IN  IF x = 0 THEN F32Zero
        ELSE IF n <= 24 THEN F32(x * 2^(24 - n), e - (24 - n))
        ELSE LET sh   == n - 24
                 q    == x \div 2^sh
                 r    == x % 2^sh
                 half == 2^(sh - 1)
                 up   == r > half \/ (r = half /\ q % 2 = 1)
             IN  IF ~up THEN F32(q, e + sh)
                 ELSE IF q + 1 = 16777216 THEN F32(8388608, e + sh + 1)
                 ELSE F32(q + 1, e + sh)

\* usize as f32
FromInt(n) == Round(n, 0)

F32Lt(a, b) ==
    IF b.m = 0 THEN FALSE
    ELSE IF a.m = 0 THEN TRUE
    ELSE a.e < b.e \/ (a.e = b.e /\ a.m < b.m)
F32Le(a, b) == a = b \/ F32Lt(a, b)

\* a + b
F32Add(a, b) ==
    IF a.m = 0 THEN b
    ELSE IF b.m = 0 THEN a
    ELSE LET hi == IF a.e >= b.e THEN a ELSE b
             lo == IF a.e >= b.e THEN b ELSE a
             d  == hi.e - lo.e
         IN  IF d >= 26 THEN hi
             ELSE LET l4     == lo.m * 4
                      ls     == l4 \div 2^d
                      sticky == IF l4 % 2^d # 0 THEN 1 ELSE 0
                  IN  Round((hi.m * 4 + ls) * 2 + sticky, hi.e - 3)

\* a - b, for a >= b
F32Sub(a, b) ==
    IF b.m = 0 THEN a
    ELSE LET d == a.e - b.e
         IN  IF d >= 26 THEN a
             ELSE LET l4     == b.m * 4
                      ls     == l4 \div 2^d
                      sticky == IF l4 % 2^d # 0 THEN 1 ELSE 0
                  IN  Round((a.m * 4 - ls - sticky) * 2 + sticky, a.e - 3)

\* |a - b|
F32AbsDiff(a, b) == IF F32Lt(a, b) THEN F32Sub(b, a) ELSE F32Sub(a, b)

\* a * b: the 48-bit product of the mantissas from their 12-bit halves.
F32Mul(a, b) ==
    IF a.m = 0 \/ b.m = 0 THEN F32Zero
    ELSE LET h1  == a.m \div 4096
             l1  == a.m % 4096
             h2  == b.m \div 4096
             l2  == b.m % 4096
             mid == h1 * l2 + l1 * h2
             t   == (mid % 4096) * 4096 + l1 * l2
             low == t % 16777216
             hi  == h1 * h2 + mid \div 4096 + t \div 16777216
             sticky == IF low % 4194304 # 0 THEN 1 ELSE 0
         IN  Round((hi * 4 + low \div 4194304) * 2 + sticky, a.e + b.e + 21)

\* Seven more bits of a quotient: qr is [q, rem] with rem < d < 2^24.
DivStep(qr, d) ==
    [q |-> qr.q * 128 + (qr.rem * 128) \div d, rem |-> (qr.rem * 128) % d]

\* a / b, for b # 0: the quotient of the mantissas to 28 binary places.
F32Div(a, b) ==
    IF a.m = 0 THEN F32Zero
    ELSE LET q0 == IF a.m >= b.m THEN [q |-> 1, rem |-> a.m - b.m]
                   ELSE [q |-> 0, rem |-> a.m]
             qr == DivStep(DivStep(DivStep(DivStep(q0, b.m), b.m), b.m), b.m)
             sticky == IF qr.rem # 0 THEN 1 ELSE 0
         IN  Round(qr.q * 2 + sticky, a.e - b.e - 29)

\* f32::powi for n >= 0: multiplication by repeated squaring.
RECURSIVE powi_loop(_, _, _)
powi_loop(a, b, r) ==
    LET r1 == IF b % 2 = 1 THEN F32Mul(r, a) ELSE r
        b1 == b \div 2
    IN  IF b1 = 0 \/ r1.m < 0 THEN r1 ELSE powi_loop(F32Mul(a, a), b1, r1)
powi(a, n) == powi_loop(a, n, F32(8388608, -23))

\* The f32 literals of the source.
F32One   == F32(8388608, -23)       \* 1.0
F32Two   == F32(8388608, -22)       \* 2.0
F32Half  == F32(8388608, -24)       \* 0.5
Lit0_05  == F32(13421773, -28)      \* 0.05_f32
Lit0_005 == F32(10737418, -31)      \* 0.005
Lit1em4  == F32(13743895, -37)      \* 1e-4


(***************************************************************************)
(* Symbol frequencies (characters.rs).  A BitsMap over the symbols of      *)
(* width n is a function on 0..2^n - 1.                                    *)
(***************************************************************************)
SetMin(S) == CHOOSE x \in S : \A y \in S : x <= y
SetMax(S) == CHOOSE x \in S : \A y \in S : y <= x

Symbols(n) == 0..(2^n - 1)

\* CharacterCounter::empty
CounterEmpty(n) == [counts |-> [b \in Symbols(n) |-> 0], total |-> 0]

\* CharacterCounter::all_equal
CounterAllEqual(n) == [counts |-> [b \in Symbols(n) |-> 1], total |-> 2^n]

\* CharacterCounter::count over an iterator giving the symbol b k times
\* (count_one for k = 1).
count(ctr, b, k) ==
    [counts |-> [ctr.counts EXCEPT ![b] = @ + k], total |-> ctr.total + k]

\* A variant of count_one that leaves the counts alone.
count_one_total(ctr, b) == [ctr EXCEPT !.total = @ + 1]

\* CharacterCounter::count_one
count_one(ctr, b) ==
    [counts |-> [ctr.counts EXCEPT ![b] = @ + 1], total |-> ctr.total + 1]

\* CharacterCounter::count: count_one for each symbol the iterator gives.
RECURSIVE count_each(_, _)
count_each(ctr, it) ==
    IF it = <<>> THEN ctr ELSE count_each(count_one(ctr, Head(it)), Tail(it))

\* CharacterCounter::count over an iterator giving the symbols 0..j once
\* each (BitsIter::begin_zero().take(j + 1)).
count_through(ctr, j) ==
    [counts |-> [b \in DOMAIN ctr.counts |->
                    ctr.counts[b] + (IF b <= j THEN 1 ELSE 0)],
     total  |-> ctr.total + j + 1]

\* CharacterCounter::freq, for total # 0.
freq(ctr) ==
    [b \in DOMAIN ctr.counts |-> F32Div(FromInt(ctr.counts[b]), FromInt(ctr.total))]

\* The sum of an f32 map over the symbols lo..hi added to acc one symbol
\* after the other in symbol order (the lower half, then the upper half).
RECURSIVE SumRange(_, _, _, _)
SumRange(f, lo, hi, acc) ==
    IF acc.m < 0 \/ lo > hi THEN acc
    ELSE IF lo = hi THEN F32Add(acc, f[lo])
    ELSE LET mid == (lo + hi) \div 2
         IN  SumRange(f, mid + 1, hi, SumRange(f, lo, mid, acc))

\* The sum of an f32 map in symbol order, from symbol b on.
SumFrom(f, b, acc) == SumRange(f, b, SetMax(DOMAIN f), acc)

\* accu_freq of the symbols lo..hi appended to acc, which holds those
\* before, one symbol after the other in symbol order.
RECURSIVE AccuRange(_, _, _, _)
AccuRange(f, lo, hi, acc) ==
    IF Len(acc) # lo \/ lo > hi THEN acc
    ELSE IF lo = hi
         THEN Append(acc, IF lo = 0 THEN f[0] ELSE F32Add(acc[lo], f[lo]))
    ELSE LET mid == (lo + hi) \div 2
         IN  AccuRange(f, mid + 1, hi, AccuRange(f, lo, mid, acc))

\* accu_freq of the symbols b.. appended to acc.
AccuFrom(f, b, acc) == AccuRange(f, b, SetMax(DOMAIN f), acc)

\* characters_from_freq with the whole frequency of the symbol taken from
\* accu_freq for accu_freq2, not the half of it.
characters_from_freq_whole(f) ==
    [st         |-> "Ok",
     _freq      |-> f,
     accu_freq  |-> [b \in DOMAIN f |-> AccuFrom(f, 0, <<>>)[b + 1]],
     accu_freq2 |-> [b \in DOMAIN f |->
                       F32Sub(AccuFrom(f, 0, <<>>)[b + 1], f[b])]]

characters_from_freq(f) ==
    LET acc == AccuFrom(f, 0, <<>>)
    IN  [st         |-> "Ok",
         _freq      |-> f,
         accu_freq  |-> [b \in DOMAIN f |-> acc[b + 1]],
         accu_freq2 |-> [b \in DOMAIN f |->
                            IF b = 0 THEN F32Div(f[0], F32Two)
                            ELSE F32Sub(acc[b + 1], F32Div(f[b], F32Two))]]

FinishPanic ==
    [st |-> "panic: sum is not one", _freq |-> <<>>, accu_freq |-> <<>>, accu_freq2 |-> <<>>]

\* A variant of finish without the smoothing of the zero frequencies.
finish_unsmoothed(ctr) ==
    IF ctr.total = 0 THEN FinishPanic ELSE characters_from_freq(freq(ctr))

\* A variant of finish that shares out n_zero_freq * 0.005 whatever it is,
\* without the cap of 0.05.
finish_capless(ctr) ==
    IF ctr.total = 0 THEN FinishPanic
    ELSE LET f0          == freq(ctr)
             n_zero_freq == Cardinality({b \in DOMAIN f0 : f0[b] = F32Zero})
             shared_freq == F32Mul(FromInt(n_zero_freq), Lit0_005)
             left_freq   == F32Sub(F32One, shared_freq)
             f1 == [b \in DOMAIN f0 |->
                       IF f0[b] = F32Zero
                       THEN F32Div(shared_freq, FromInt(n_zero_freq))
                       ELSE F32Mul(f0[b], left_freq)]
         IN  characters_from_freq(f1)

\* CharacterCounter::finish.  With total = 0 every frequency is 0.0 / 0.0,
\* a NaN, and so is the sum, which the comparison with 1e-4 rejects.
finish(ctr) ==
    IF ctr.total = 0 THEN FinishPanic
    ELSE LET f0          == freq(ctr)
             n_zero_freq == Cardinality({b \in DOMAIN f0 : f0[b] = F32Zero})
             n_times     == F32Mul(FromInt(n_zero_freq), Lit0_005)
             shared_freq == IF F32Lt(n_times, Lit0_05) THEN n_times ELSE Lit0_05
             left_freq   == F32Sub(F32One, shared_freq)
             f1 == [b \in DOMAIN f0 |->
                       IF f0[b] = F32Zero
                       THEN F32Div(shared_freq, FromInt(n_zero_freq))
                       ELSE F32Mul(f0[b], left_freq)]
             sum == SumFrom(f1, 0, F32Zero)
         IN  IF ~F32Lt(F32AbsDiff(sum, F32One), Lit1em4) THEN FinishPanic
             ELSE characters_from_freq(f1)

(***************************************************************************)
(* Letter costs (letters.rs).  costs[j + 1] is the cost of letter j.       *)
(***************************************************************************)
\* LetterCosts::check: the sum of c^cost over the letters is within 1e-4
\* of one.
RECURSIVE PowSum(_, _, _, _)
PowSum(costs, c, j, acc) ==
    IF acc.m < 0 \/ j > Len(costs) THEN acc
    ELSE PowSum(costs, c, j + 1, F32Add(acc, powi(c, costs[j])))

check(costs, c) == F32Lt(F32AbsDiff(PowSum(costs, c, 1, F32Zero), F32One), Lit1em4)

\* The sum over the letters of 2^(k * (top - cost)); 2^-k is a root of the
\* characteristic equation exactly when the sum is 2^(k * top).
RECURSIVE KraftSum(_, _, _)
KraftSum(costs, k, top) ==
    IF costs = <<>> THEN 0
    ELSE 2^(k * (top - Head(costs))) + KraftSum(Tail(costs), k, top)

\* Polynomial::positive_roots: the root finder is the roots crate.  The
\* model takes cost vectors whose characteristic equation has a positive
\* root 2^-k, which is an f32, and is of degree at most 2, which the crate
\* solves in closed form (for equal costs 1 it is n * x - 1 = 0; for one
\* letter the root is 1).
positive_roots(costs) ==
    LET top == SetMax({costs[j] : j \in 1..Len(costs)})
    IN  [i \in 1..1 |->
            LET k == CHOOSE k \in 0..4 : KraftSum(costs, k, top) = 2^(k * top)
            IN  F32(8388608, -23 - k)]

\* LetterCosts::build
LetterCosts_build(costs) ==
    LET c == positive_roots(costs)[1]
    IN  [st |-> IF check(costs, c) THEN "Ok" ELSE "panic: calculated root is wrong",
         costs |-> costs, c |-> c]

\* Polynomial::positive_roots for any vector of costs >= 0 of at least one
\* letter, as the set of the results it can have.  For x > 0 the polynomial
\* (sum of x^cost) - 1 is at least the number of letters of cost 0 less one,
\* and greater when a letter has a cost above 0; so with a letter of cost 0
\* no root is positive and the result is empty.  With every cost above 0 it
\* is -1 at 0 and not below 0 at 1, so a positive root exists; the finder is
\* the roots crate, and what it returns is taken to be any positive f32 of
\* RootCandidates.
RootCandidates ==
    { F32(8388608 + off, -23 - k) : k \in 0..4, off \in {0, 1, 84, 8389} }

found_roots(costs) ==
    IF \E j \in 1..Len(costs) : costs[j] = 0 THEN { <<>> }
    ELSE { <<c>> : c \in RootCandidates }

\* LetterCosts::build without the call of check.
build_unchecked(costs, roots) ==
    IF roots = <<>>
    THEN [st |-> "Err(SolveCharacteristicsEquationFail)", costs |-> costs, c |-> F32Zero]
    ELSE [st |-> "Ok", costs |-> costs, c |-> roots[1]]

\* LetterCosts::build, roots being what positive_roots returned.
build_found(costs, roots) ==
    IF roots = <<>>
    THEN [st |-> "Err(SolveCharacteristicsEquationFail)", costs |-> costs, c |-> F32Zero]
    ELSE [st |-> IF check(costs, roots[1]) THEN "Ok" ELSE "panic: calculated root is wrong",
          costs |-> costs, c |-> roots[1]]


(***************************************************************************)
(* The code table builder (encoding.rs).  A builder is [st, char2code]:    *)
(* st is "Ok" or the panic that ended the build, char2code maps a symbol   *)
(* to [some, code], the Option<Code> of the source.                        *)
(***************************************************************************)
NoCode       == [some |-> FALSE, code |-> <<>>]
SomeCode(cd) == [some |-> TRUE, code |-> cd]

\* EncodingBuilder::new
EncodingBuilder_new(n) ==
    [st |-> "Ok", char2code |-> [b \in Symbols(n) |-> NoCode]]

set_code(bld, char, cd) ==
    IF bld.char2code[char].some
    THEN [bld EXCEPT !.st = "panic: code for character is already set"]
    ELSE [bld EXCEPT !.char2code[char] = SomeCode(cd)]

\* The sum of c^cost(j) over the letters j before m.
RECURSIVE sum_before(_, _, _, _)
sum_before(lc, m, j, acc) ==
    IF acc.m < 0 \/ j >= m THEN acc
    ELSE sum_before(lc, m, j + 1, F32Add(acc, powi(lc.c, lc.costs[j + 1])))

\* The bucket of letter m in code: the symbols of l..r whose accu_freq2
\* lies in [lm, rm).
partition(lc, chars, l, r, m) ==
    LET apl   == IF l = 0 THEN F32Zero ELSE chars.accu_freq[l - 1]
        apr   == chars.accu_freq[r]
        range == F32Sub(apr, apl)
        lm    == F32Add(apl, F32Mul(range, sum_before(lc, m, 0, F32Zero)))
        rm    == F32Add(lm, F32Mul(range, powi(lc.c, lc.costs[m + 1])))
    IN  {ch \in l..r : /\ F32Le(lm, chars.accu_freq2[ch])
                       /\ F32Lt(chars.accu_freq2[ch], rm)}

\* A variant of join that puts the letter before the code.
join_front(prefix, m) == <<m>> \o prefix

\* A variant of join that adds nothing for the first letter.
join_but_first(prefix, m) == IF m = 0 THEN prefix ELSE Append(prefix, m)

\* Code::join
join(prefix, m) == Append(prefix, m)

\* The first non-empty bucket made empty of l and l put in the first
\* bucket, when the first bucket is empty (encoding.rs 57-68).
fix_first(parts, l) ==
    IF parts[1] # {} THEN [st |-> "Ok", parts |-> parts]
    ELSE LET full == {k \in 1..Len(parts) : parts[k] # {}}
         IN  IF full = {} THEN [st |-> "panic: unwrap on None", parts |-> parts]
             ELSE LET k == SetMin(full)
                  IN  IF l \notin parts[k]
                      THEN [st |-> "panic: expected l to be in partition[m]", parts |-> parts]
                      ELSE [st |-> "Ok",
                            parts |-> [[parts EXCEPT ![k] = @ \ {l}] EXCEPT ![1] = @ \cup {l}]]

\* The same for the last bucket and r (encoding.rs 70-83).
fix_last(parts, r) ==
    LET n == Len(parts)
    IN  IF parts[n] # {} THEN [st |-> "Ok", parts |-> parts]
        ELSE LET full == {k \in 1..n : parts[k] # {}}
             IN  IF full = {} THEN [st |-> "panic: unwrap on None", parts |-> parts]
                 ELSE LET k == SetMax(full)
                      IN  IF r \notin parts[k]
                          THEN [st |-> "panic: expected r to be in partition[m]", parts |-> parts]
                          ELSE [st |-> "Ok",
                                parts |-> [[parts EXCEPT ![k] = @ \ {r}] EXCEPT ![n] = @ \cup {r}]]

\* A builder that has the field calls keeps the calls of code with l # r
\* in it, in the order they are made: the range, the buckets as filtered
\* (found), the result of the edge correction (st) and the buckets after it
\* (parts).  The field stands for nothing in the source.
traced(bld, l, r, found, fixed) ==
    IF "calls" \in DOMAIN bld
    THEN [bld EXCEPT !.calls = Append(@, [l |-> l, r |-> r, found |-> found,
                                          st |-> fixed.st, parts |-> fixed.parts])]
    ELSE bld

\* EncodingBuilder::code, and its loop over the buckets from letter m on.
\* A bucket that spans l..r again repeats the call for ever: the stack
\* overflows.
RECURSIVE code(_, _, _, _, _, _)
RECURSIVE code_buckets(_, _, _, _, _, _, _, _)
code(bld, l, r, prefix, lc, chars) ==
    IF bld.st # "Ok" THEN bld
    ELSE IF l = r THEN set_code(bld, l, prefix)
    ELSE LET parts == [k \in 1..Len(lc.costs) |-> partition(lc, chars, l, r, k - 1)]
             f1    == fix_first(parts, l)
             f2    == IF f1.st = "Ok" THEN fix_last(f1.parts, r) ELSE f1
         IN  IF f2.st # "Ok" THEN [traced(bld, l, r, parts, f2) EXCEPT !.st = f2.st]
             ELSE code_buckets(traced(bld, l, r, parts, f2), f2.parts, 0, l, r,
                               prefix, lc, chars)

code_buckets(bld, parts, m, l, r, prefix, lc, chars) ==
    IF bld.st # "Ok" \/ m >= Len(parts) THEN bld
    ELSE LET par == parts[m + 1]
         IN  IF par = {} THEN code_buckets(bld, parts, m + 1, l, r, prefix, lc, chars)
             ELSE IF SetMin(par) = l /\ SetMax(par) = r
                  THEN [bld EXCEPT !.st = "stack overflow"]
                  ELSE code_buckets(
                           code(bld, SetMin(par), SetMax(par), join(prefix, m), lc, chars),
                           parts, m + 1, l, r, prefix, lc, chars)

\* EncodingBuilder::finish
EncodingBuilder_finish(bld, lc) ==
    IF bld.st # "Ok" THEN bld
    ELSE IF \E b \in DOMAIN bld.char2code : ~bld.char2code[b].some
         THEN [bld EXCEPT !.st = "panic: unwrap on None"]
         ELSE bld

\* Encoding::build: new, build (code from zero to biggest with the empty
\* prefix) and finish.
Encoding_build(n, lc, chars) ==
    LET bld == code(EncodingBuilder_new(n), 0, 2^n - 1, <<>>, lc, chars)
    IN  EncodingBuilder_finish(bld, lc) @@ [n_letters |-> Len(lc.costs)]

\* Decoder::from_encoding: the trie of the code table over the dense map;
\* expect panics on NonPrefixFreeError.
from_encoding(enc) ==
    build_tree([k \in 1..Cardinality(DOMAIN enc.char2code) |->
                    <<k - 1, enc.char2code[k - 1].code>>],
               0..(enc.n_letters - 1))


(***************************************************************************)
(* SpecBuild: symbols are counted, then the frequencies are finished and   *)
(* the code table is built for the letter costs.                           *)
(***************************************************************************)
MaxCounted == 3

\* Bits4; the symbols that are counted; the cost vectors.
BuildWidth     == 4
CountedSymbols == {0, 5, 15}
CostVectors    == { <<1, 1>>, <<1, 2, 2>>, <<1, 1, 1, 1>> }

InitBuild ==
    /\ counter \in {CounterEmpty(BuildWidth), CounterAllEqual(BuildWidth)}
    /\ frequency = Nil
    /\ \E costs \in CostVectors : letter_costs = LetterCosts_build(costs)
    /\ encoding = Nil
    /\ NotBuildIdle

CountOne ==
    /\ counter # Nil
    /\ encoding = Nil
    /\ counter.total < MaxCounted
    /\ \E b \in CountedSymbols : counter' = count(counter, b, 1)
    /\ UNCHANGED <<frequency, letter_costs, encoding>>
    /\ UNCHANGED notBuildVars

\* CharacterCounter::finish followed by Encoding::build.
Build ==
    /\ counter # Nil
    /\ encoding = Nil
    /\ letter_costs.st = "Ok"
    /\ LET chars == finish(counter)
       IN  encoding' =
              IF chars.st # "Ok"
              THEN [st |-> chars.st, char2code |-> <<>>, n_letters |-> 0]
              ELSE Encoding_build(BuildWidth, letter_costs, chars)
    /\ UNCHANGED <<counter, frequency, letter_costs>>
    /\ UNCHANGED notBuildVars

NextBuild == CountOne \/ Build

SpecBuild == InitBuild /\ [][NextBuild]_vars

(***************************************************************************)
(* SpecCode: as SpecBuild, with an alphabet of one letter among the cost   *)
(* vectors, and with the calls of EncodingBuilder::code kept in the        *)
(* builder.                                                                *)
(***************************************************************************)
CodeCostVectors == CostVectors \cup { <<1>> }

InitCode ==
    /\ counter \in {CounterEmpty(BuildWidth), CounterAllEqual(BuildWidth)}
    /\ frequency = Nil
    /\ \E costs \in CodeCostVectors : letter_costs = LetterCosts_build(costs)
    /\ encoding = Nil
    /\ NotBuildIdle

\* Encoding::build with the calls of code kept.
build_traced(n, lc, chars) ==
    EncodingBuilder_finish(
        code(EncodingBuilder_new(n) @@ [calls |-> <<>>], 0, 2^n - 1, <<>>, lc, chars),
        lc)

\* CharacterCounter::finish followed by Encoding::build.
BuildTraced ==
    /\ counter # Nil
    /\ counter.total > 0
    /\ encoding = Nil
    /\ letter_costs.st = "Ok"
    /\ \E chars \in {finish(counter)} :
          encoding' = build_traced(BuildWidth, letter_costs, chars)
    /\ UNCHANGED <<counter, frequency, letter_costs>>
    /\ UNCHANGED notBuildVars

NextCode == CountOne \/ BuildTraced

SpecCode == InitCode /\ [][NextCode]_vars


(***************************************************************************)
(* jimi.rs.  A token is a String, modelled as the sequence of its          *)
(* characters; the characters of the model are ASCII, one byte each, so    *)
(* String::len is the number of characters and a byte offset into a        *)
(* string is a character offset.                                           *)
(***************************************************************************)
\* The body of JimiEncoding::new once the letter costs are solved: unwrap
\* panics when they are not, Encoding::build may panic.
JimiEncoding_build(n, letters, chars) ==
    IF chars.st # "Ok" THEN [st |-> chars.st, char2code |-> <<>>, n_letters |-> 0]
    ELSE IF letters.st # "Ok"
         THEN [st |-> letters.st, char2code |-> <<>>, n_letters |-> 0]
         ELSE Encoding_build(n, letters, chars)

\* char::len_utf8: the number of bytes of the UTF-8 encoding of a character.
len_utf8(ch) ==
    IF ch < 128 THEN 1 ELSE IF ch < 2048 THEN 2 ELSE IF ch < 65536 THEN 3 ELSE 4

\* String::len: the length of a token in bytes.
RECURSIVE String_len(_)
String_len(token) ==
    IF token = <<>> THEN 0 ELSE len_utf8(Head(token)) + String_len(Tail(token))

\* The letter costs of JimiEncoding::new: tokens.map_by_ref(|_, s| s.len()).
JimiEncoding_letters(tokens) ==
    LetterCosts_build([j \in 1..Len(tokens) |-> String_len(tokens[j])])

\* JimiEncoding::new for the symbol width n.
JimiEncoding_new(n, tokens, chars) ==
    [n |-> n, tokens |-> tokens,
     encoding |-> JimiEncoding_build(n, JimiEncoding_letters(tokens), chars)]

\* The tokens of the letters of a code, one after the other.
RECURSIVE code_tokens(_, _)
code_tokens(tokens, cd) ==
    IF cd = <<>> THEN <<>>
    ELSE tokens[Head(cd) + 1] \o code_tokens(tokens, Tail(cd))

\* The strings pushed to chunk for the symbols lo..hi, in symbol order.
RECURSIVE chunk_of(_, _, _)
chunk_of(je, lo, hi) ==
    IF lo > hi THEN <<>>
    ELSE IF lo = hi THEN code_tokens(je.tokens, je.encoding.char2code[lo].code)
    ELSE LET mid == (lo + hi) \div 2
         IN  chunk_of(je, lo, mid) \o chunk_of(je, mid + 1, hi)

\* The length of chunk when the closure of from_encoding reaches symbol b.
RECURSIVE offset_of(_, _, _)
offset_of(lens, lo, hi) ==
    IF lo > hi THEN 0
    ELSE IF lo = hi THEN lens[lo]
    ELSE LET mid == (lo + hi) \div 2
         IN  offset_of(lens, lo, mid) + offset_of(lens, mid + 1, hi)

\* A variant of from_encoding that takes the offset of a symbol after the
\* tokens of its code were pushed.
JimiEncoder_of_after(je, lens) ==
    [chunk     |-> chunk_of(je, 0, SetMax(DOMAIN lens)),
     char2code |-> [b \in DOMAIN lens |->
                      [offset |-> offset_of(lens, 0, b), len |-> lens[b]]]]

\* JimiEncoder::from_encoding: chunk holds the text of every symbol's code
\* and char2code the (offset, len) of each.
JimiEncoder_of(je, lens) ==
    [chunk     |-> chunk_of(je, 0, SetMax(DOMAIN lens)),
     char2code |-> [b \in DOMAIN lens |->
                      [offset |-> offset_of(lens, 0, b - 1), len |-> lens[b]]]]

JimiEncoder_from_encoding(je) ==
    JimiEncoder_of(je, [b \in DOMAIN je.encoding.char2code |->
                          Len(code_tokens(je.tokens, je.encoding.char2code[b].code))])

\* JimiEncoder::encode_bits: the slice of chunk of the symbol.
encode_bits(enc, bits) ==
    LET oc == enc.char2code[bits]
    IN  SubSeq(enc.chunk, oc.offset + 1, oc.offset + oc.len)

\* JimiEncoder::encode
encode(enc, n, bytes) ==
    LET p == iter_bytes(n, bytes)
    IN  [data |-> [k \in 1..Len(p.data) |-> encode_bits(enc, p.data[k])],
         original_length |-> p.original_length]

\* StringLexer::new: the hash-map trie of the tokens over their characters.
StringLexer_new(tokens) ==
    build_tree([k \in 1..Len(tokens) |-> <<k - 1, tokens[k]>>],
               UNION {{tokens[k][j] : j \in 1..Len(tokens[k])} : k \in 1..Len(tokens)})

\* JimiDecoder::from_encoding: Err(LexemError) when StringLexer::new
\* fails; Encoding::decoder panics on a code table that is not prefix free.
JimiDecoder_of(tokens, lx, dc) ==
    [st      |-> IF lx.st = "panic" THEN "panic"
                 ELSE IF lx.st # "Ok" THEN "LexemError"
                 ELSE IF dc.st # "Ok" THEN "panic"
                 ELSE "Ok",
     lexer   |-> lx.map,
     decoder |-> dc.map,
     tokens  |-> tokens]

JimiDecoder_from_encoding(je) ==
    JimiDecoder_of(je.tokens, StringLexer_new(je.tokens), from_encoding(je.encoding))

\* JimiDecoder::decode_chars: Decoder::decode_from_error over
\* StringLexer::lex.  The state is the lexer's iterator over the characters
\* and the decoder's iterator, whose source is the lexer's.
decode_chars(jd, chars) ==
    [lex |-> new(jd.lexer, chars), dec |-> new(jd.decoder, <<>>)]

\* iter_from_error::LexingIter::next of the decoder's iterator: the letters
\* are pulled from the lexer's iterator one at a time.  x is what the
\* lexer's iterator returned, r what the match on the letter gave.
RECURSIVE decode_chars_next(_)
RECURSIVE on_lexed(_, _)
RECURSIVE on_decoded(_, _)
\* A variant of on_lexed that takes the lexer's UnexpectedTermination for
\* the end of the letters.
on_lexed_ending(st, x) ==
    CASE x.item.kind \in {"None", "UnexpectedTermination"} ->
            [st |-> [st EXCEPT !.lex = x.iter], item |-> at_end(st.dec)]
      [] x.item.kind = "panic" ->
            [st |-> [st EXCEPT !.lex = x.iter], item |-> ItemPanic]
      [] x.item.kind = "Ok" ->
            on_decoded(x.iter, on_letter("dense", st.dec, x.item.label))
      [] OTHER ->
            [st |-> [st EXCEPT !.lex = x.iter], item |-> ItemParent(x.item)]

decode_chars_next(st) == on_lexed(st, iter_next("hash", st.lex))

on_lexed(st, x) ==
    CASE x.item.kind = "None" ->
            [st |-> [st EXCEPT !.lex = x.iter], item |-> at_end(st.dec)]
      [] x.item.kind = "panic" ->
            [st |-> [st EXCEPT !.lex = x.iter], item |-> ItemPanic]
      [] x.item.kind = "Ok" ->
            on_decoded(x.iter, on_letter("dense", st.dec, x.item.label))
      [] OTHER ->
            [st |-> [st EXCEPT !.lex = x.iter], item |-> ItemParent(x.item)]

on_decoded(lex, r) ==
    IF r.ret THEN [st |-> [lex |-> lex, dec |-> r.iter], item |-> r.item]
    ELSE decode_chars_next([lex |-> lex, dec |-> r.iter])

\* A variant of map_error that collects the tokens of the prefix last
\* letter first.
map_error_reversed(jd, e) ==
    IF e.kind = "Parent" THEN [tag |-> "Lexing", err |-> e.err]
    ELSE [tag |-> "Hajiman",
          err |-> [e EXCEPT !.prefix = [k \in 1..Len(@) |->
                                           jd.tokens[@[Len(@) + 1 - k] + 1]],
                            !.letter = IF @ < 0 THEN @ ELSE jd.tokens[@ + 1]]]

\* JimiDecoder::map_error: the letters of a decoder error become their
\* tokens (Error::Hajiman); an error of the lexer is Error::Lexing.
map_error(jd, e) ==
    CASE e.kind = "Parent" -> [tag |-> "Lexing", err |-> e.err]
      [] e.kind = "UnexpectedTermination" ->
            [tag |-> "Hajiman",
             err |-> [e EXCEPT !.prefix = [k \in 1..Len(@) |-> jd.tokens[@[k] + 1]]]]
      [] e.kind = "Unexpected" ->
            [tag |-> "Hajiman",
             err |-> [e EXCEPT !.prefix = [k \in 1..Len(@) |-> jd.tokens[@[k] + 1]],
                               !.letter = jd.tokens[@ + 1]]]
      [] e.kind = "Invalid" ->
            [tag |-> "Hajiman", err |-> [e EXCEPT !.letter = jd.tokens[@ + 1]]]

\* The item of decode_to_bits for an item of decode_chars.
to_bits(jd, item) ==
    IF item.kind = "Ok" THEN SymOk(item.label) ELSE SymErr(map_error(jd, item))

\* The items of decode_to_bits that concat takes: whole groups, up to the
\* end of the sequence or the first group that holds an Err.  r is what
\* the iterator returned, acc the items taken before.
RECURSIVE decode_to_bits(_, _, _, _)
RECURSIVE taken(_, _, _, _)
RECURSIVE taken_more(_, _, _, _)
decode_to_bits(jd, st, n, acc) == taken(jd, n, acc, decode_chars_next(st))

taken(jd, n, acc, r) ==
    CASE r.item.kind = "None"  -> [panic |-> FALSE, items |-> acc]
      [] r.item.kind = "panic" -> [panic |-> TRUE, items |-> acc]
      [] OTHER -> taken_more(jd, n, r.st, Append(acc, to_bits(jd, r.item)))

taken_more(jd, n, st, acc) ==
    IF /\ Len(acc) % GroupSize(n) = 0
       /\ \E k \in (Len(acc) - GroupSize(n) + 1)..Len(acc) : ~acc[k].ok
    THEN [panic |-> FALSE, items |-> acc]
    ELSE decode_to_bits(jd, st, n, acc)

\* Bits::concat over the items taken.
concat_taken(n, d, w) ==
    IF d.panic THEN [st |-> "panic", e |-> "", written |-> w]
    ELSE concat(n, d.items, w)

\* JimiDecoder::decode into a Vec<u8> holding w.
decode(jd, n, s, w) ==
    concat_taken(n, decode_to_bits(jd, decode_chars(jd, s), n, <<>>), w)

(***************************************************************************)
(* SpecJimi: a JimiEncoding is made for a token table and equal symbol     *)
(* frequencies; its encoder and its decoder are made; bytes are encoded    *)
(* and the concatenation of the slices is decoded.                         *)
(***************************************************************************)
MaxPlain == 2

\* "a" "b"; "a" "bb" "ba"; "a" "a" (one token twice); "ab" "a" "bb" (a
\* token that is the start of another).
JimiTables ==
    { << <<97>>, <<98>> >>,
      << <<97>>, <<98, 98>>, <<98, 97>> >>,
      << <<97>>, <<97>> >>,
      << <<97, 98>>, <<97>>, <<98, 98>> >> }
PlainBytes == {0, 182, 255}

InitJimi ==
    /\ \E n \in Widths, tokens \in JimiTables :
          jimi = JimiEncoding_new(n, tokens, finish(CounterAllEqual(n)))
    /\ jimi_encoder = Nil
    /\ jimi_decoder = Nil
    /\ plain = <<>>
    /\ cipher = Nil
    /\ decoded = Nil
    /\ NotJimiIdle

\* JimiEncoding::encoder
Encoder ==
    /\ jimi # Nil
    /\ jimi.encoding.st = "Ok"
    /\ jimi_encoder = Nil
    /\ jimi_encoder' = JimiEncoder_from_encoding(jimi)
    /\ UNCHANGED <<jimi, jimi_decoder, plain, cipher, decoded>>
    /\ UNCHANGED notJimiVars

\* JimiEncoding::decoder
Decoder ==
    /\ jimi # Nil
    /\ jimi.encoding.st = "Ok"
    /\ jimi_decoder = Nil
    /\ jimi_decoder' = JimiDecoder_from_encoding(jimi)
    /\ UNCHANGED <<jimi, jimi_encoder, plain, cipher, decoded>>
    /\ UNCHANGED notJimiVars

\* JimiEncoder::encode
Encode ==
    /\ jimi # Nil
    /\ jimi_encoder # Nil
    /\ cipher = Nil
    /\ \E bytes \in SeqsUpTo(PlainBytes, MaxPlain) :
          /\ plain' = bytes
          /\ cipher' = encode(jimi_encoder, jimi.n, bytes)
    /\ UNCHANGED <<jimi, jimi_encoder, jimi_decoder, decoded>>
    /\ UNCHANGED notJimiVars

\* JimiDecoder::decode of the concatenation of the slices.
Decode ==
    /\ jimi # Nil
    /\ cipher # Nil
    /\ jimi_decoder # Nil
    /\ jimi_decoder.st = "Ok"
    /\ decoded = Nil
    /\ decoded' = decode(jimi_decoder, jimi.n, Flatten(cipher.data), <<>>)
    /\ UNCHANGED <<jimi, jimi_encoder, jimi_decoder, plain, cipher>>
    /\ UNCHANGED notJimiVars

NextJimi == Encoder \/ Decoder \/ Encode \/ Decode

SpecJimi == InitJimi /\ [][NextJimi]_vars

(***************************************************************************)
(* SpecLoad: a JimiEncoding is deserialized and JimiEncoding::decoder is   *)
(* called on it.  The derived Deserialize of JimiEncoding and Encoding     *)
(* (jimi.rs 7, encoding.rs 110) accepts every token list and every code    *)
(* table of 2^N codes, so the loaded table is a built one in which the     *)
(* code of one symbol is replaced by any code.                             *)
(***************************************************************************)
MaxLoadedLen == 4

LoadedCodes == SeqsUpTo({0, 1}, MaxLoadedLen) \ {<<>>}

\* serde::Deserialize for JimiEncoding: the fields as they are in the input.
Deserialized(je, s, cd) ==
    [je EXCEPT !.encoding.char2code[s] = SomeCode(cd)]

\* JimiEncoding::new for the token tables of the model.
BuiltTables ==
    { JimiEncoding_new(BuildWidth, tokens, finish(CounterAllEqual(BuildWidth))) :
          tokens \in JimiTables }

\* The tables loaded in which the code of a symbol of syms is replaced.
LoadedTables(syms) ==
    { Deserialized(built, s, cd) :
          built \in {t \in BuiltTables : t.encoding.st = "Ok"},
          s \in syms, cd \in LoadedCodes }

InitLoaded(syms) ==
    /\ jimi \in LoadedTables(syms)
    /\ jimi_encoder = Nil
    /\ jimi_decoder = Nil
    /\ plain = <<>>
    /\ cipher = Nil
    /\ decoded = Nil
    /\ NotJimiIdle

InitLoad == InitLoaded(Symbols(BuildWidth))

SpecLoad == InitLoad /\ [][Decoder]_vars

(***************************************************************************)
(* SpecText: a JimiEncoding is made as in SpecJimi or loaded as in         *)
(* SpecLoad, its decoder is made, and the items of decode_chars and of     *)
(* decode_to_bits are pulled for a text.  The text is in cipher.text;      *)
(* decoded holds the items pulled from StringLexer::lex alone (lexed),     *)
(* from decode_chars (chars) and from decode_to_bits (bits).  An iterator  *)
(* whose input ended inside a token or a code returns                      *)
(* UnexpectedTermination on every further pull, so a bounded number of     *)
(* items is pulled.                                                        *)
(***************************************************************************)
MaxText == 4

\* 'a', 'b' and 'x', which is in no token.
TextChars == {97, 98, 120}

\* The first pulls items of StringLexer::lex, up to the end of the sequence.
RECURSIVE lex_pull(_, _, _)
RECURSIVE lex_pulled(_, _, _)
lex_pull(it, pulls, acc) ==
    IF pulls = 0 THEN acc ELSE lex_pulled(iter_next("hash", it), pulls, acc)

lex_pulled(r, pulls, acc) ==
    IF r.item.kind \in {"None", "panic"} THEN acc
    ELSE lex_pull(r.iter, pulls - 1, Append(acc, r.item))

\* The first pulls items of decode_chars, up to the end of the sequence.
RECURSIVE chars_pull(_, _, _)
RECURSIVE chars_pulled(_, _, _)
chars_pull(st, pulls, acc) ==
    IF pulls = 0 THEN acc ELSE chars_pulled(decode_chars_next(st), pulls, acc)

chars_pulled(r, pulls, acc) ==
    IF r.item.kind \in {"None", "panic"} THEN acc
    ELSE chars_pull(r.st, pulls - 1, Append(acc, r.item))

\* decode_to_bits: map_err(map_error) over the items of decode_chars.
bits_of(jd, items) == [k \in 1..Len(items) |-> to_bits(jd, items[k])]

PulledItems(jd, text, items) ==
    [lexed |-> lex_pull(new(jd.lexer, text), Len(text) + MaxText + 1, <<>>),
     chars |-> items,
     bits  |-> bits_of(jd, items)]

\* JimiDecoder::decode_to_bits, pulled MaxText + 1 times.
DecodeToBits ==
    /\ jimi # Nil
    /\ jimi_decoder # Nil
    /\ jimi_decoder.st = "Ok"
    /\ cipher = Nil
    /\ \E text \in SeqsUpTo(TextChars, MaxText) :
          /\ cipher' = [text |-> text]
          /\ decoded' = PulledItems(jimi_decoder, text,
                                    chars_pull(decode_chars(jimi_decoder, text),
                                               MaxText + 1, <<>>))
    /\ UNCHANGED <<jimi, jimi_encoder, jimi_decoder, plain>>
    /\ UNCHANGED notJimiVars

NextText == Decoder \/ DecodeToBits

\* The encoding is built, or loaded with another code for the symbol 0.
InitText == InitJimi \/ InitLoaded({0})

SpecText == InitText /\ [][NextText]_vars

(***************************************************************************)
(* SpecState: the JimiState of the web UI (hajiman-webui/src/main.rs).     *)
(* jimi, jimi_encoder and jimi_decoder are its fields encoding, encoder    *)
(* and decoder; cipher holds what the last call returned: the call, its    *)
(* result ("panic" when the call aborted, after which nothing runs) and    *)
(* the text of encode.  The UI fixes Bits8 and hajimi_tokens(); the model  *)
(* takes Bits4 and the tokens "a", "b" in their place.                     *)
(***************************************************************************)
MaxUpdates == 2

ui_tokens == << <<97>>, <<98>> >>

\* The bytes of the input of encode: "a" and "z".
UiBytes == {97, 122}

Returned(call, st, text) == [call |-> call, st |-> st, text |-> text]

\* CharacterCounter::count over the symbols of an iterator.
RECURSIVE count_all(_, _)
count_all(ctr, syms) ==
    IF syms = <<>> THEN ctr ELSE count_all(count(ctr, Head(syms), 1), Tail(syms))

\* serde_json::from_str in update_encoding_json: the encodings parsed in
\* the model give the symbol b the four binary digits of b as code, but for
\* the symbol 0, which has any code, and have any token table.
BinaryCode(b) == << b \div 8, (b \div 4) % 2, (b \div 2) % 2, b % 2 >>

ParsedEncodings ==
    { [n |-> BuildWidth, tokens |-> tokens,
       encoding |-> [st |-> "Ok",
                     char2code |-> [b \in Symbols(BuildWidth) |->
                                      SomeCode(IF b = 0 THEN cd ELSE BinaryCode(b))],
                     n_letters |-> Len(tokens)]] :
          tokens \in JimiTables, cd \in LoadedCodes }

\* JimiState::default
InitState ==
    /\ jimi = JimiEncoding_new(BuildWidth, ui_tokens, finish(CounterAllEqual(BuildWidth)))
    /\ jimi_encoder = JimiEncoder_from_encoding(jimi)
    /\ jimi_decoder = JimiDecoder_from_encoding(jimi)
    /\ plain = <<>>
    /\ cipher = Returned("default", "Ok", <<>>)
    /\ decoded = Nil
    /\ NotJimiIdle

\* JimiState::update: the three assignments in their order; the `?` on
\* decoder() returns before the third.  res is what update returns.
update(enc, encoder, dec, res) ==
    /\ jimi' = enc
    /\ jimi_encoder' = encoder
    /\ jimi_decoder' = IF dec.st = "Ok" THEN dec ELSE jimi_decoder
    /\ cipher' = res

\* update_encoding_json with a text that parses: JimiState::update.
Update ==
    /\ cipher.st # "panic"
    /\ Len(plain) < MaxUpdates
    /\ \E enc \in ParsedEncodings :
          \E encoder \in {JimiEncoder_from_encoding(enc)},
             dec \in {JimiDecoder_from_encoding(enc)} :
             update(enc, encoder, dec, Returned("update", dec.st, <<>>))
    /\ plain' = Append(plain, 0)
    /\ UNCHANGED decoded
    /\ UNCHANGED notJimiVars

\* The encoding that JimiState::encode trains on its input.
trained(bytes) ==
    JimiEncoding_new(BuildWidth, ui_tokens,
        finish(count_all(CounterEmpty(BuildWidth), iter_bytes(BuildWidth, bytes).data)))

\* JimiState::encode of a non-empty input: update(..).expect(..), then
\* encode_with_current_encoding.  A build that aborts leaves the state as
\* it is.
encode_with(enc, bytes) ==
    IF enc.encoding.st # "Ok"
    THEN /\ cipher' = Returned("encode", "panic", <<>>)
         /\ UNCHANGED <<jimi, jimi_encoder, jimi_decoder>>
    ELSE \E encoder \in {JimiEncoder_from_encoding(enc)},
            dec \in {JimiDecoder_from_encoding(enc)} :
            update(enc, encoder, dec,
                   Returned("encode", IF dec.st = "Ok" THEN "Ok" ELSE "panic",
                            Flatten(encode(encoder, BuildWidth, bytes).data)))

\* JimiState::encode
EncodeInput ==
    /\ cipher.st # "panic"
    /\ Len(plain) < MaxUpdates
    /\ \E bytes \in SeqsUpTo(UiBytes, MaxPlain) :
          IF bytes = <<>>
          THEN /\ cipher' = Returned("encode", "Ok", <<>>)
               /\ UNCHANGED <<jimi, jimi_encoder, jimi_decoder>>
          ELSE \E enc \in {trained(bytes)} : encode_with(enc, bytes)
    /\ plain' = Append(plain, 1)
    /\ UNCHANGED decoded
    /\ UNCHANGED notJimiVars

NextState == Update \/ EncodeInput

SpecState == InitState /\ [][NextState]_vars

(***************************************************************************)
(* SpecCount: symbols are counted into an empty counter of each width,     *)
(* each symbol in one call of count with one of several numbers of         *)
(* occurrences, and CharacterCounter::finish is called.                    *)
(***************************************************************************)
\* The numbers of occurrences: small ones, and 2^24 + 1, which no f32 holds.
Occurrences == {1, 3, 1000, 16777217}

InitCount ==
    /\ counter \in {CounterEmpty(n) : n \in Widths}
    /\ frequency = Nil
    /\ letter_costs = Nil
    /\ encoding = Nil
    /\ NotBuildIdle

\* CharacterCounter::count over an iterator that gives b k times.
CountMany ==
    /\ frequency = Nil
    /\ \E b \in CountedSymbols, k \in Occurrences :
          /\ counter.counts[b] = 0
          /\ counter' = count(counter, b, k)
    /\ UNCHANGED <<frequency, letter_costs, encoding>>
    /\ UNCHANGED notBuildVars

\* CharacterCounter::finish
Finish ==
    /\ frequency = Nil
    /\ frequency' = finish(counter)
    /\ UNCHANGED <<counter, letter_costs, encoding>>
    /\ UNCHANGED notBuildVars

NextCount == CountMany \/ Finish

SpecCount == InitCount /\ [][NextCount]_vars

(***************************************************************************)
(* SpecSmooth: a counter of each width, made by empty or by all_equal,     *)
(* counts the symbols 0..j once each and the symbol 0 some more times, for *)
(* the first and the last j of the width, so that every number from 0 to   *)
(* 11 of symbols without a count occurs as well as the large numbers, and  *)
(* CharacterCounter::finish is called.                                     *)
(***************************************************************************)
\* The last symbols counted: the first sixteen and the last twelve symbols.
LastCounted(S) == {j \in S : j < 16 \/ j >= Cardinality(S) - 12}

\* The occurrences of symbol 0 counted after the symbols 0..j.
MoreCounts == {0, 2}

InitSmooth ==
    /\ counter \in {CounterEmpty(n) : n \in Widths} \cup {CounterAllEqual(n) : n \in Widths}
    /\ frequency = Nil
    /\ letter_costs = Nil
    /\ encoding = Nil
    /\ NotBuildIdle

\* CharacterCounter::count over the symbols 0..j, then over symbol 0.
CountThrough ==
    /\ frequency = Nil
    /\ counter.total \in {0, Cardinality(DOMAIN counter.counts)}
    /\ counter.counts[0] = counter.counts[1]
    /\ \E j \in LastCounted(DOMAIN counter.counts), k \in MoreCounts :
          counter' = count(count_through(counter, j), 0, k)
    /\ UNCHANGED <<frequency, letter_costs, encoding>>
    /\ UNCHANGED notBuildVars

NextSmooth == CountThrough \/ Finish

SpecSmooth == InitSmooth /\ [][NextSmooth]_vars

(***************************************************************************)
(* SpecCounter: a counter of each width, made by empty or by all_equal,    *)
(* on which count_one and count are called in any order, at most           *)
(* MaxCounted symbols being counted in all.                                *)
(***************************************************************************)
\* The symbols counted since the counter was made (symbol 1 is never
\* counted and keeps the count it was made with).
CountedSince(ctr) == ctr.total - ctr.counts[1] * Cardinality(DOMAIN ctr.counts)

InitCounter ==
    /\ counter \in {CounterEmpty(n) : n \in Widths} \cup {CounterAllEqual(n) : n \in Widths}
    /\ frequency = Nil
    /\ letter_costs = Nil
    /\ encoding = Nil
    /\ NotBuildIdle

\* CharacterCounter::count_one
CounterCountOne ==
    /\ CountedSince(counter) < MaxCounted
    /\ \E b \in CountedSymbols : counter' = count_one(counter, b)
    /\ UNCHANGED <<frequency, letter_costs, encoding>>
    /\ UNCHANGED notBuildVars

\* CharacterCounter::count over an iterator of up to two symbols.
CounterCount ==
    /\ \E it \in SeqsUpTo(CountedSymbols, 2) :
          /\ CountedSince(counter) + Len(it) <= MaxCounted
          /\ counter' = count_each(counter, it)
    /\ UNCHANGED <<frequency, letter_costs, encoding>>
    /\ UNCHANGED notBuildVars

NextCounter == CounterCountOne \/ CounterCount

SpecCounter == InitCounter /\ [][NextCounter]_vars

(***************************************************************************)
(* SpecAccu: the symbols 0..3 are counted into an empty counter of each    *)
(* width, each some number of times, and the frequency table is made of    *)
(* the counter either by characters_from_freq(counter.freq()), as          *)
(* test_character_frequency does, or by CharacterCounter::finish.          *)
(***************************************************************************)
ExampleSymbols == 0..3

ExampleCounts == 1..4

CountExample ==
    /\ frequency = Nil
    /\ \E b \in ExampleSymbols, k \in ExampleCounts :
          /\ counter.counts[b] = 0
          /\ counter' = count(counter, b, k)
    /\ UNCHANGED <<frequency, letter_costs, encoding>>
    /\ UNCHANGED notBuildVars

\* characters_from_freq(counter.freq())
FromFreq ==
    /\ frequency = Nil
    /\ counter.total > 0
    /\ frequency' = characters_from_freq(freq(counter))
    /\ UNCHANGED <<counter, letter_costs, encoding>>
    /\ UNCHANGED notBuildVars

NextAccu == CountExample \/ FromFreq \/ Finish

SpecAccu == InitCount /\ [][NextAccu]_vars

(***************************************************************************)
(* SpecLetters: LetterCosts::build is called with a vector of one to       *)
(* MaxLetters costs, each 0, 1 or 2, and the root finder returns one of    *)
(* the results it can have.                                                *)
(***************************************************************************)
MaxLetters == 3

LetterCostValues == {0, 1, 2}

\* The vector of costs before build is called.
CostsGiven(costs) == [st |-> "costs", costs |-> costs, c |-> F32Zero]

InitLetters ==
    /\ counter = Nil
    /\ frequency = Nil
    /\ letter_costs = CostsGiven(<<>>)
    /\ encoding = Nil
    /\ NotBuildIdle

\* The vector of costs grows by one letter (LetterIdIndexed::new of a Vec).
AddCost ==
    /\ letter_costs.st = "costs"
    /\ Len(letter_costs.costs) < MaxLetters
    /\ \E cost \in LetterCostValues :
          letter_costs' = CostsGiven(Append(letter_costs.costs, cost))
    /\ UNCHANGED <<counter, frequency, encoding>>
    /\ UNCHANGED notBuildVars

BuildLetters ==
    /\ letter_costs.st = "costs"
    /\ letter_costs.costs # <<>>
    /\ \E roots \in found_roots(letter_costs.costs) :
          letter_costs' = build_found(letter_costs.costs, roots)
    /\ UNCHANGED <<counter, frequency, encoding>>
    /\ UNCHANGED notBuildVars

NextLetters == AddCost \/ BuildLetters

SpecLetters == InitLetters /\ [][NextLetters]_vars

(***************************************************************************)
(* JSON (serde_json, and the Serialize and Deserialize of the tables).  A  *)
(* text is a sequence of bytes, a string a sequence of characters (code    *)
(* points).  A JSON value is [t, num, chars, keys, items]: t is "num",     *)
(* "str", "arr" or "obj"; an object has its keys and, in items, their      *)
(* values in the order written.                                            *)
(***************************************************************************)
JNum(k)          == [t |-> "num", num |-> k, chars |-> <<>>, keys |-> <<>>, items |-> <<>>]
JStr(chars)      == [t |-> "str", num |-> 0, chars |-> chars, keys |-> <<>>, items |-> <<>>]
JArr(items)      == [t |-> "arr", num |-> 0, chars |-> <<>>, keys |-> <<>>, items |-> items]
JObj(keys, items) == [t |-> "obj", num |-> 0, chars |-> <<>>, keys |-> keys, items |-> items]

\* The field names of the derived Serialize, as characters.
Key_encoding  == <<101, 110, 99, 111, 100, 105, 110, 103>>
Key_tokens    == <<116, 111, 107, 101, 110, 115>>
Key_char2code == <<99, 104, 97, 114, 50, 99, 111, 100, 101>>
Key_n_letters == <<110, 95, 108, 101, 116, 116, 101, 114, 115>>

\* The bytes of the UTF-8 encoding of a character below U+10000.
utf8(ch) ==
    IF ch < 128 THEN <<ch>>
    ELSE IF ch < 2048 THEN <<192 + (ch \div 64), 128 + (ch % 64)>>
    ELSE <<224 + (ch \div 4096), 128 + ((ch \div 64) % 64), 128 + (ch % 64)>>

RECURSIVE String_bytes(_)
String_bytes(chars) ==
    IF chars = <<>> THEN <<>> ELSE utf8(Head(chars)) \o String_bytes(Tail(chars))

HexDigit(k) == IF k < 10 THEN 48 + k ELSE 87 + k

\* serde_json's format_escaped_str_contents: the quote, the backslash and
\* the control characters are escaped, every other character is written
\* as it is.
escape(ch) ==
    IF ch = 34 THEN <<92, 34>>
    ELSE IF ch = 92 THEN <<92, 92>>
    ELSE IF ch = 8 THEN <<92, 98>>
    ELSE IF ch = 9 THEN <<92, 116>>
    ELSE IF ch = 10 THEN <<92, 110>>
    ELSE IF ch = 12 THEN <<92, 102>>
    ELSE IF ch = 13 THEN <<92, 114>>
    ELSE IF ch < 32 THEN <<92, 117, 48, 48, HexDigit(ch \div 16), HexDigit(ch % 16)>>
    ELSE utf8(ch)

RECURSIVE format_escaped(_)
format_escaped(chars) ==
    IF chars = <<>> THEN <<>> ELSE escape(Head(chars)) \o format_escaped(Tail(chars))

format_str(chars) == <<34>> \o format_escaped(chars) \o <<34>>

\* The decimal digits of an integer >= 0.
RECURSIVE digits(_)
digits(k) == IF k < 10 THEN <<48 + k>> ELSE Append(digits(k \div 10), 48 + (k % 10))

\* PrettyFormatter: two spaces for each level.
indent(d) == [i \in 1..(2 * d) |-> 32]

\* The Formatter of serde_json: CompactFormatter when pretty is FALSE,
\* PrettyFormatter, at the depth d, when it is TRUE.  format_items writes
\* the items lo..hi of an array or an object with their separators.
RECURSIVE format_value(_, _, _)
RECURSIVE format_items(_, _, _, _, _)
format_items(v, lo, hi, pretty, d) ==
    IF lo = hi
    THEN (IF pretty THEN indent(d) ELSE <<>>)
         \o (IF v.t = "obj"
             THEN format_str(v.keys[lo]) \o (IF pretty THEN <<58, 32>> ELSE <<58>>)
             ELSE <<>>)
         \o format_value(v.items[lo], pretty, d)
    ELSE format_items(v, lo, (lo + hi) \div 2, pretty, d)
         \o (IF pretty THEN <<44, 10>> ELSE <<44>>)
         \o format_items(v, ((lo + hi) \div 2) + 1, hi, pretty, d)

format_value(v, pretty, d) ==
    IF v.t = "num" THEN digits(v.num)
    ELSE IF v.t = "str" THEN format_str(v.chars)
    ELSE IF v.items = <<>>
         THEN IF v.t = "arr" THEN <<91, 93>> ELSE <<123, 125>>
    ELSE (IF v.t = "arr" THEN <<91>> ELSE <<123>>)
         \o (IF pretty THEN <<10>> ELSE <<>>)
         \o format_items(v, 1, Len(v.items), pretty, d + 1)
         \o (IF pretty THEN <<10>> \o indent(d) ELSE <<>>)
         \o (IF v.t = "arr" THEN <<93>> ELSE <<125>>)

\* BitsMap's Serialize with the entry of the last symbol left out.
BitsMap_serialize_short(m) ==
    JArr([i \in 1..(Cardinality(DOMAIN m) - 1) |->
             JArr([j \in 1..Len(m[i - 1].code) |-> JNum(m[i - 1].code[j])])])

\* impl Serialize for BitsMap: a sequence of the entries that iter gives,
\* one for each symbol from zero on.
BitsMap_serialize(m) ==
    JArr([i \in 1..Cardinality(DOMAIN m) |->
             JArr([j \in 1..Len(m[i - 1].code) |-> JNum(m[i - 1].code[j])])])

\* The derived Serialize of Encoding and of JimiEncoding.
Encoding_serialize(enc) ==
    JObj(<<Key_char2code, Key_n_letters>>,
         <<BitsMap_serialize(enc.char2code), JNum(enc.n_letters)>>)

JimiEncoding_serialize(je) ==
    JObj(<<Key_encoding, Key_tokens>>,
         <<Encoding_serialize(je.encoding),
           JArr([j \in 1..Len(je.tokens) |-> JStr(je.tokens[j])])>>)

\* serde_json::to_vec and to_vec_pretty (to_writer, to_string_pretty) of a
\* JimiEncoding.
to_vec(je, pretty) == format_value(JimiEncoding_serialize(je), pretty, 0)

\* The Deserializer of serde_json.  A parse result is [st, pos, val]: st is
\* "Ok" or "Err", pos the place of the first byte not read.
POk(val, pos) == [st |-> "Ok", pos |-> pos, val |-> val]
PErr(pos)     == [st |-> "Err", pos |-> pos, val |-> JNum(0)]

\* The byte at pos, -1 past the end of the input.
At(text, pos) == IF pos <= Len(text) THEN text[pos] ELSE -1

RECURSIVE parse_whitespace(_, _)
parse_whitespace(text, pos) ==
    IF At(text, pos) \in {32, 10, 13, 9} THEN parse_whitespace(text, pos + 1) ELSE pos

RECURSIVE parse_digits(_, _, _)
parse_digits(text, pos, acc) ==
    IF At(text, pos) \in 48..57 /\ acc < 1000000
    THEN parse_digits(text, pos + 1, 10 * acc + (At(text, pos) - 48))
    ELSE IF At(text, pos) \in 48..57 \cup {46, 69, 101} THEN PErr(pos)
    ELSE POk(JNum(acc), pos)

\* An integer >= 0: a zero is not followed by a digit.
parse_number(text, pos) ==
    IF At(text, pos) = 48
    THEN IF At(text, pos + 1) \in 48..57 \cup {46, 69, 101} THEN PErr(pos + 1)
         ELSE POk(JNum(0), pos + 1)
    ELSE parse_digits(text, pos, 0)

HexValue(b) ==
    IF b \in 48..57 THEN b - 48
    ELSE IF b \in 97..102 THEN b - 87
    ELSE IF b \in 65..70 THEN b - 55
    ELSE -1

\* One character of a string is read, or its closing quote; s is
\* [st, pos, chars, done].
str_char(s, ch, len) == [s EXCEPT !.pos = @ + len, !.chars = Append(@, ch)]

str_fail(s) == [s EXCEPT !.st = "Err", !.done = TRUE]

parse_escape(text, s, e) ==
    IF e = 34 \/ e = 92 \/ e = 47 THEN str_char(s, e, 2)
    ELSE IF e = 98 THEN str_char(s, 8, 2)
    ELSE IF e = 116 THEN str_char(s, 9, 2)
    ELSE IF e = 110 THEN str_char(s, 10, 2)
    ELSE IF e = 102 THEN str_char(s, 12, 2)
    ELSE IF e = 114 THEN str_char(s, 13, 2)
    ELSE IF e = 117 /\ \A i \in 2..5 : HexValue(At(text, s.pos + i)) >= 0
         THEN str_char(s, HexValue(At(text, s.pos + 2)) * 4096
                          + HexValue(At(text, s.pos + 3)) * 256
                          + HexValue(At(text, s.pos + 4)) * 16
                          + HexValue(At(text, s.pos + 5)), 6)
    ELSE str_fail(s)

Continuation(text, pos) == At(text, pos) \in 128..191

parse_str_step(text, s, b) ==
    IF b = 34 THEN [s EXCEPT !.pos = @ + 1, !.done = TRUE]
    ELSE IF b = 92 THEN parse_escape(text, s, At(text, s.pos + 1))
    ELSE IF b < 32 THEN str_fail(s)
    ELSE IF b < 128 THEN str_char(s, b, 1)
    ELSE IF b \in 194..223 /\ Continuation(text, s.pos + 1)
         THEN str_char(s, (b - 192) * 64 + (At(text, s.pos + 1) - 128), 2)
    ELSE IF b \in 224..239 /\ Continuation(text, s.pos + 1)
                         /\ Continuation(text, s.pos + 2)
         THEN str_char(s, (b - 224) * 4096 + (At(text, s.pos + 1) - 128) * 64
                          + (At(text, s.pos + 2) - 128), 3)
    ELSE str_fail(s)

\* Up to k characters are read, the first half and then the second.
RECURSIVE parse_str_run(_, _, _)
parse_str_run(text, s, k) ==
    IF s.done \/ k = 0 THEN s
    ELSE IF k = 1 THEN parse_str_step(text, s, At(text, s.pos))
    ELSE parse_str_run(text, parse_str_run(text, s, k \div 2), k - (k \div 2))

\* The characters are read to the closing quote, k and then twice as many
\* at a time.
RECURSIVE parse_str_all(_, _, _)
parse_str_all(text, s, k) ==
    IF s.done THEN s ELSE parse_str_all(text, parse_str_run(text, s, k), 2 * k)

str_result(s) ==
    IF s.st = "Ok" /\ s.done THEN POk(JStr(s.chars), s.pos) ELSE PErr(s.pos)

\* A string, pos being the place of its opening quote.
parse_str(text, pos) ==
    str_result(parse_str_all(text,
        [st |-> "Ok", pos |-> pos + 1, chars |-> <<>>, done |-> FALSE], 1))

\* The items of an array or an object are read: s is
\* [st, pos, keys, items, done], pos being the place of the next item.
items_fail(s, pos) == [s EXCEPT !.st = "Err", !.pos = pos, !.done = TRUE]

\* After the item e and the white space behind it: a comma or the end.
items_after(text, s, key, e, p, close) ==
    IF At(text, p) = 44
    THEN [s EXCEPT !.pos = parse_whitespace(text, p + 1),
                   !.keys = Append(@, key), !.items = Append(@, e.val)]
    ELSE IF At(text, p) = close
    THEN [s EXCEPT !.pos = p + 1, !.done = TRUE,
                   !.keys = Append(@, key), !.items = Append(@, e.val)]
    ELSE items_fail(s, p)

items_value(text, s, key, e, close) ==
    IF e.st # "Ok" THEN items_fail(s, e.pos)
    ELSE items_after(text, s, key, e, parse_whitespace(text, e.pos), close)

RECURSIVE parse_value(_, _)
RECURSIVE parse_items_run(_, _, _, _)
RECURSIVE parse_items_all(_, _, _, _)

\* After the key of an object's item: a colon, then the value.
items_key(text, s, key, p) ==
    IF key.st # "Ok" THEN items_fail(s, key.pos)
    ELSE IF At(text, p) # 58 THEN items_fail(s, p)
    ELSE items_value(text, s, key.val.chars,
                     parse_value(text, parse_whitespace(text, p + 1)), 125)

parse_items_step(text, s, close) ==
    IF close = 93 THEN items_value(text, s, <<>>, parse_value(text, s.pos), 93)
    ELSE IF At(text, s.pos) # 34 THEN items_fail(s, s.pos)
    ELSE items_key(text, s, parse_str(text, s.pos),
                   parse_whitespace(text, parse_str(text, s.pos).pos))

parse_items_run(text, s, k, close) ==
    IF s.done \/ k = 0 THEN s
    ELSE IF k = 1 THEN parse_items_step(text, s, close)
    ELSE parse_items_run(text, parse_items_run(text, s, k \div 2, close),
                         k - (k \div 2), close)

\* The items are read to the closing bracket, k and then twice as many at
\* a time.
parse_items_all(text, s, k, close) ==
    IF s.done THEN s
    ELSE parse_items_all(text, parse_items_run(text, s, k, close), 2 * k, close)

items_result(s, close) ==
    IF s.st # "Ok" \/ ~s.done THEN PErr(s.pos)
    ELSE IF close = 93 THEN POk(JArr(s.items), s.pos)
    ELSE POk(JObj(s.keys, s.items), s.pos)

\* An array or an object, p being the place after its opening bracket and
\* the white space behind it.
parse_items(text, p, close) ==
    IF At(text, p) = close
    THEN POk(IF close = 93 THEN JArr(<<>>) ELSE JObj(<<>>, <<>>), p + 1)
    ELSE items_result(parse_items_all(text,
            [st |-> "Ok", pos |-> p, keys |-> <<>>, items |-> <<>>, done |-> FALSE],
            1, close), close)

parse_value(text, pos) ==
    IF At(text, pos) = 34 THEN parse_str(text, pos)
    ELSE IF At(text, pos) \in 48..57 THEN parse_number(text, pos)
    ELSE IF At(text, pos) = 91 THEN parse_items(text, parse_whitespace(text, pos + 1), 93)
    ELSE IF At(text, pos) = 123 THEN parse_items(text, parse_whitespace(text, pos + 1), 125)
    ELSE PErr(pos)

\* The derived Deserialize of Code and LetterId: a sequence of integers.
Code_deserialize(v) ==
    IF v.t = "arr" /\ \A i \in 1..Len(v.items) : v.items[i].t = "num"
    THEN [st |-> "Ok", code |-> [i \in 1..Len(v.items) |-> v.items[i].num]]
    ELSE [st |-> "Err", code |-> <<>>]

\* Visitor::visit_seq without the comparison of the length.
visit_seq_any(n, items) == [st |-> "Ok", vec |-> items]

\* Visitor::visit_seq of BitsMap, every element being read: the number of
\* elements is compared with 2^N.  The result is [st, vec], vec being the
\* Vec of the BitsMap made.
visit_seq(n, items) ==
    IF Len(items) # 2^n THEN [st |-> "Err: expected 2^N elements", vec |-> <<>>]
    ELSE [st |-> "Ok", vec |-> items]

\* impl Deserialize for BitsMap<B, Code> over a JSON value.
BitsMap_read(n, v) ==
    IF v.t # "arr" \/ \E i \in 1..Len(v.items) : Code_deserialize(v.items[i]).st # "Ok"
    THEN [st |-> "Err", vec |-> <<>>]
    ELSE visit_seq(n, [i \in 1..Len(v.items) |-> Code_deserialize(v.items[i]).code])

\* The BitsMap read as the map of the code table, [st, map].
BitsMap_indexed(n, r) ==
    IF r.st # "Ok" THEN [st |-> r.st, map |-> <<>>]
    ELSE [st |-> "Ok", map |-> [b \in Symbols(n) |-> SomeCode(r.vec[b + 1])]]

BitsMap_deserialize(n, v) == BitsMap_indexed(n, BitsMap_read(n, v))

\* The places of a field in an object; the derived visit_map takes a field
\* that is there once, and passes over the names it does not know.
Fields(v, key) == {i \in 1..Len(v.keys) : v.keys[i] = key}

HasFields(v, keys) ==
    /\ v.t = "obj"
    /\ \A key \in keys : Cardinality(Fields(v, key)) = 1

Field(v, key) == v.items[CHOOSE i \in Fields(v, key) : TRUE]

\* The derived Deserialize of Encoding, the table and n_letters given.
Encoding_of(table, n_letters) ==
    IF table.st # "Ok" THEN [st |-> table.st, char2code |-> <<>>, n_letters |-> 0]
    ELSE IF n_letters.t # "num" THEN [st |-> "Err", char2code |-> <<>>, n_letters |-> 0]
    ELSE [st |-> "Ok", char2code |-> table.map, n_letters |-> n_letters.num]

Encoding_deserialize(n, v) ==
    IF ~HasFields(v, {Key_char2code, Key_n_letters})
    THEN [st |-> "Err", char2code |-> <<>>, n_letters |-> 0]
    ELSE Encoding_of(BitsMap_deserialize(n, Field(v, Key_char2code)),
                     Field(v, Key_n_letters))

\* The derived Deserialize of LetterIdIndexed<String>.
Tokens_deserialize(v) ==
    IF v.t = "arr" /\ \A i \in 1..Len(v.items) : v.items[i].t = "str"
    THEN [st |-> "Ok", tokens |-> [i \in 1..Len(v.items) |-> v.items[i].chars]]
    ELSE [st |-> "Err", tokens |-> <<>>]

\* The derived Deserialize of JimiEncoding: [st, jimi].
JimiEncoding_of(n, enc, tokens) ==
    IF enc.st # "Ok" THEN [st |-> enc.st, jimi |-> Nil]
    ELSE IF tokens.st # "Ok" THEN [st |-> "Err", jimi |-> Nil]
    ELSE [st |-> "Ok",
          jimi |-> [n |-> n, tokens |-> tokens.tokens, encoding |-> enc]]

JimiEncoding_deserialize(n, v) ==
    IF ~HasFields(v, {Key_encoding, Key_tokens}) THEN [st |-> "Err", jimi |-> Nil]
    ELSE JimiEncoding_of(n, Encoding_deserialize(n, Field(v, Key_encoding)),
                         Tokens_deserialize(Field(v, Key_tokens)))

\* StreamDeserializer::next: None when only white space is left; the value
\* is read to the last of its bytes and no further.  The result is
\* [st, jimi, pos]: pos is the place of the reader after an Ok.
stream_next(n, p, parsed) ==
    IF parsed.st # "Ok" THEN [st |-> "Err", jimi |-> Nil, pos |-> 0]
    ELSE [st   |-> JimiEncoding_deserialize(n, parsed.val).st,
          jimi |-> JimiEncoding_deserialize(n, parsed.val).jimi,
          pos  |-> parsed.pos]

\* read_encoding, for the symbol width n.
read_encoding(n, text) ==
    IF parse_whitespace(text, 1) > Len(text)
    THEN [st |-> "None", jimi |-> Nil, pos |-> Len(text) + 1]
    ELSE stream_next(n, parse_whitespace(text, 1),
                     parse_value(text, parse_whitespace(text, 1)))

(***************************************************************************)
(* The command line (cli.rs).  The reader is the bytes not yet read; the   *)
(* inputs of the model are shorter than the 512 bytes of the buffers, so   *)
(* encode and decode take the whole input with one read.                   *)
(***************************************************************************)
\* encode: the slices of JimiEncoder::encode written one after the other.
cli_encode(enc, n, bytes) == String_bytes(Flatten(encode(enc, n, bytes).data))

\* encode_enclosing_encoding without the newline behind the encoding.
encode_enclosing_bare(je, enc, bytes, pretty) ==
    to_vec(je, pretty) \o cli_encode(enc, je.n, bytes)

\* encode_enclosing_encoding: what is written.
encode_enclosing_encoding(je, enc, bytes, pretty) ==
    to_vec(je, pretty) \o <<10>> \o cli_encode(enc, je.n, bytes)

\* skip_until_newline: the place of the reader behind the first newline at
\* or after pos, the end of the input when there is none.
skip_until_newline(text, pos) ==
    IF \E i \in pos..Len(text) : text[i] = 10
    THEN 1 + CHOOSE i \in pos..Len(text) :
                /\ text[i] = 10
                /\ \A j \in pos..(i - 1) : text[j] # 10
    ELSE Len(text) + 1

\* str::from_utf8: the characters of the longest valid start of the bytes
\* and its length, valid_up_to.
RECURSIVE from_utf8(_, _, _)
from_utf8(bytes, pos, chars) ==
    IF pos > Len(bytes) THEN [chars |-> chars, valid_up_to |-> Len(bytes)]
    ELSE IF bytes[pos] < 128
    THEN from_utf8(bytes, pos + 1, Append(chars, bytes[pos]))
    ELSE IF bytes[pos] \in 194..223 /\ Continuation(bytes, pos + 1)
    THEN from_utf8(bytes, pos + 2,
                   Append(chars, (bytes[pos] - 192) * 64 + (bytes[pos + 1] - 128)))
    ELSE IF bytes[pos] \in 224..239 /\ Continuation(bytes, pos + 1)
                                   /\ Continuation(bytes, pos + 2)
    THEN from_utf8(bytes, pos + 3,
                   Append(chars, (bytes[pos] - 224) * 4096
                                 + (bytes[pos + 1] - 128) * 64 + (bytes[pos + 2] - 128)))
    ELSE [chars |-> chars, valid_up_to |-> pos - 1]

CliOk(w)     == [st |-> "Ok", written |-> w]
CliErr(e, w) == [st |-> e, written |-> w]

\* decode after the first read: r is what Bits::concat returned for the
\* characters read, leftover tells that bytes were left in the buffer.  An
\* error other than UnexpectedTermination returns before anything is
\* written; then the bytes are written, the next read gives 0 bytes and
\* the function returns.
cli_decode_read(r, leftover) ==
    IF r.st = "panic" THEN CliErr("panic", <<>>)
    ELSE IF r.st = "Io"
    THEN CliErr("panic: concating to vector should not produce any error", <<>>)
    ELSE IF r.st = "Parent" /\ r.e.err.kind # "UnexpectedTermination"
    THEN CliErr("Err: error parsing honey water", <<>>)
    ELSE IF leftover THEN CliErr("Err: input is not complete UTF-8 string", r.written)
    ELSE IF r.st = "Parent" THEN CliErr("Err: error parsing honey water", r.written)
    ELSE CliOk(r.written)

cli_decode_utf8(jd, n, u, len) ==
    IF u.valid_up_to = 0 THEN CliErr("Err: input is not valid UTF-8", <<>>)
    ELSE cli_decode_read(decode(jd, n, u.chars, <<>>), u.valid_up_to < len)

\* decode of the bytes left in the reader.
cli_decode(jd, n, input) ==
    IF input = <<>> THEN CliOk(<<>>)
    ELSE cli_decode_utf8(jd, n, from_utf8(input, 1, <<>>), Len(input))

\* The bytes of the reader from pos on.
Rest(text, pos) == SubSeq(text, pos, Len(text))

\* skip_until_newline and decode behind the encoding r that read_encoding
\* returned, as test_encode_with_enclosed_encoding_and_decode calls them;
\* unwrap panics when r is not Some(Ok(..)).
decode_behind(jd, n, text, r) ==
    IF r.st # "Ok" THEN CliErr("panic: unwrap", <<>>)
    ELSE cli_decode(jd, n, Rest(text, skip_until_newline(text, r.pos)))

(***************************************************************************)
(* SpecCli: a JimiEncoding is made for equal frequencies; it is written    *)
(* as JSON, alone with data behind it or by encode_enclosing_encoding with *)
(* the encoded input behind it, compact or pretty; then the output is read *)
(* with read_encoding and, for the enclosed form, skip_until_newline and   *)
(* decode.  cipher is [call, pretty, out], decoded [read, result].         *)
(***************************************************************************)
\* The widths whose symbols fill whole bytes: Bits8 of the command line
\* and Bits4.
CliWidths == {4, 8}

\* "a" "b"; a newline, U+00E9 and a backslash with a quote.
CliTables ==
    { << <<97>>, <<98>> >>,
      << <<10>>, <<233>>, <<92, 34>> >> }

\* Nothing; "some trailing data"; a newline and a brace; a quote.
TrailingData ==
    { <<>>,
      <<115, 111, 109, 101, 32, 116, 114, 97, 105, 108, 105, 110, 103,
        32, 100, 97, 116, 97>>,
      <<10, 123>>, <<34>> }

\* The inputs encoded: none, one byte, two and three bytes.
CliInputs == { <<>>, <<182>>, <<182, 0>>, <<255, 0, 182>> }

InitCli ==
    /\ \E n \in CliWidths, tokens \in CliTables :
          jimi = JimiEncoding_new(n, tokens, finish(CounterAllEqual(n)))
    /\ jimi_encoder = Nil
    /\ jimi_decoder = Nil
    /\ plain = <<>>
    /\ cipher = Nil
    /\ decoded = Nil
    /\ NotJimiIdle

\* serde_json::to_string and to_string_pretty with data put behind.
SerializeEncoding ==
    /\ jimi.encoding.st = "Ok"
    /\ cipher = Nil
    /\ \E pretty \in BOOLEAN, trailing \in TrailingData :
          cipher' = [call |-> "to_string", pretty |-> pretty,
                     out |-> to_vec(jimi, pretty) \o trailing]
    /\ UNCHANGED <<jimi, jimi_encoder, jimi_decoder, plain, decoded>>
    /\ UNCHANGED notJimiVars

\* encode_enclosing_encoding
EncodeEnclosing ==
    /\ jimi_encoder # Nil
    /\ cipher = Nil
    /\ \E pretty \in BOOLEAN, bytes \in CliInputs :
          /\ plain' = bytes
          /\ cipher' = [call |-> "encode_enclosing_encoding", pretty |-> pretty,
                        out |-> encode_enclosing_encoding(jimi, jimi_encoder,
                                                          bytes, pretty)]
    /\ UNCHANGED <<jimi, jimi_encoder, jimi_decoder, decoded>>
    /\ UNCHANGED notJimiVars

\* read_encoding
ReadEncoding ==
    /\ cipher # Nil
    /\ cipher.call = "to_string"
    /\ decoded = Nil
    /\ decoded' = [read |-> read_encoding(jimi.n, cipher.out), result |-> Nil]
    /\ UNCHANGED <<jimi, jimi_encoder, jimi_decoder, plain, cipher>>
    /\ UNCHANGED notJimiVars

\* read_encoding, skip_until_newline and decode with the decoder of the
\* encoding written.
DecodeEnclosed ==
    /\ cipher # Nil
    /\ cipher.call = "encode_enclosing_encoding"
    /\ jimi_decoder # Nil
    /\ jimi_decoder.st = "Ok"
    /\ decoded = Nil
    /\ \E r \in {read_encoding(jimi.n, cipher.out)} :
          decoded' = [read |-> r,
                      result |-> decode_behind(jimi_decoder, jimi.n, cipher.out, r)]
    /\ UNCHANGED <<jimi, jimi_encoder, jimi_decoder, plain, cipher>>
    /\ UNCHANGED notJimiVars

NextCli ==
    Encoder \/ Decoder \/ SerializeEncoding \/ EncodeEnclosing
        \/ ReadEncoding \/ DecodeEnclosed

SpecCli == InitCli /\ [][NextCli]_vars

(***************************************************************************)
(* cli::decode read by read.  The reader gives the input in reads of one   *)
(* byte or more and then a read of 0 bytes; the state of the loop is the   *)
(* iterator, the bytes kept at the front of buf (buf[0..offset]),          *)
(* termination_error, the bytes written and ret, "reading" until the       *)
(* function returns.                                                       *)
(***************************************************************************)
\* The items that Bits::concat pulls from iter.map(map_error) and the
\* iterator it leaves behind: whole groups, up to the end of the sequence
\* or the first group that holds an Err.
RECURSIVE pull_to_bits(_, _, _, _)
RECURSIVE pulled(_, _, _, _)
RECURSIVE pulled_more(_, _, _, _)
pull_to_bits(jd, st, n, acc) == pulled(jd, n, acc, decode_chars_next(st))

pulled(jd, n, acc, r) ==
    CASE r.item.kind = "None"  -> [panic |-> FALSE, items |-> acc, iter |-> r.st]
      [] r.item.kind = "panic" -> [panic |-> TRUE, items |-> acc, iter |-> r.st]
      [] OTHER -> pulled_more(jd, n, r.st, Append(acc, to_bits(jd, r.item)))

pulled_more(jd, n, st, acc) ==
    IF /\ Len(acc) % GroupSize(n) = 0
       /\ \E k \in (Len(acc) - GroupSize(n) + 1)..Len(acc) : ~acc[k].ok
    THEN [panic |-> FALSE, items |-> acc, iter |-> st]
    ELSE pull_to_bits(jd, st, n, acc)

NoTermination      == [some |-> FALSE, e |-> ""]
SomeTermination(e) == [some |-> TRUE, e |-> e]

\* The state of the loop before the first read.
decode_begin(jd) ==
    [iter |-> decode_chars(jd, <<>>), buf |-> <<>>,
     termination_error |-> NoTermination, written |-> <<>>, ret |-> "reading"]

decode_return(lp, ret) == [lp EXCEPT !.ret = ret]

\* The match on the result of Bits::concat and the write: p is what concat
\* pulled, r what it returned for a new Vec, leftover the bytes behind
\* valid_up_to.
decode_match(lp, leftover, p, r) ==
    IF r.st = "panic" THEN decode_return(lp, "panic")
    ELSE IF r.st = "Io"
    THEN decode_return(lp, "panic: concating to vector should not produce any error")
    ELSE IF r.st = "Parent" /\ r.e.err.kind # "UnexpectedTermination"
    THEN decode_return(lp, "Err: error parsing honey water")
    ELSE [iter |-> p.iter, buf |-> leftover,
          termination_error |-> IF r.st = "Parent" THEN SomeTermination(r.e)
                                ELSE NoTermination,
          written |-> lp.written \o r.written, ret |-> "reading"]

\* iter.cont with the characters read, and Bits::concat into a new Vec.
decode_concat(jd, n, lp, leftover, p) ==
    decode_match(lp, leftover, p, concat_taken(n, p, <<>>))

\* The arm Ok(n) of the loop, bytes being buf[0..offset + n] and u what
\* from_utf8 gave for them.
decode_str(jd, n, lp, bytes, u) ==
    IF u.valid_up_to = 0 THEN decode_return(lp, "Err: input is not valid UTF-8")
    ELSE decode_concat(jd, n, lp, Rest(bytes, u.valid_up_to + 1),
                       pull_to_bits(jd, [lex |-> cont(lp.iter.lex, u.chars),
                                         dec |-> lp.iter.dec], n, <<>>))

\* The arm Ok(n) for a read that gave the bytes data, n = Len(data) > 0.
decode_read(jd, n, lp, data) ==
    decode_str(jd, n, lp, lp.buf \o data, from_utf8(lp.buf \o data, 1, <<>>))

\* The arm Ok(0).
decode_end(lp) ==
    IF Len(lp.buf) # 0 THEN decode_return(lp, "Err: input is not complete UTF-8 string")
    ELSE IF lp.termination_error.some
    THEN decode_return(lp, "Err: error parsing honey water")
    ELSE decode_return(lp, "Ok")

\* The loop of decode over a reader that gives the bytes of input in reads
\* of the lengths of reads, in order, and reads of 0 bytes afterwards.
\* seen collects, for every read taken, whether it left a termination
\* error behind.
RECURSIVE decode_loop(_, _, _, _, _, _)
RECURSIVE decode_looped(_, _, _, _, _, _)
decode_loop(jd, n, lp, input, reads, seen) ==
    IF lp.ret # "reading" THEN [lp |-> lp, seen |-> seen]
    ELSE IF reads = <<>> \/ input = <<>> THEN [lp |-> decode_end(lp), seen |-> seen]
    ELSE decode_looped(jd, n,
                       decode_read(jd, n, lp, SubSeq(input, 1, Head(reads))),
                       Rest(input, Head(reads) + 1), Tail(reads), seen)

decode_looped(jd, n, lp, input, reads, seen) ==
    decode_loop(jd, n, lp, input, reads,
                Append(seen, lp.ret = "reading" /\ lp.termination_error.some))

\* The place of the reader behind read_encoding, r being what it returned.
\* serde_json takes the bytes of an io::Read one at a time and puts none
\* back: behind Some(Err(..)) the reader has given the white space and the
\* byte at which the parser stopped.  The place is that of the source for
\* an input whose first byte behind the white space starts no JSON value.
reader_behind(text, r) ==
    IF r.st = "Err"
    THEN SetMin({parse_value(text, parse_whitespace(text, 1)).pos, Len(text)}) + 1
    ELSE r.pos

\* The encoding that the Decode arm of run takes without --encoding-file:
\* the one read or JimiEncoding::new(hajimi_tokens(), &all_equal()).
run_encoding(n, hajimi, r) ==
    IF r.st = "Ok" THEN r.jimi
    ELSE JimiEncoding_new(n, hajimi, finish(CounterAllEqual(n)))

\* The place from which decode reads in run: behind the newline after an
\* encoding that was read, and where read_encoding left the reader
\* otherwise.
run_input(text, r) ==
    IF r.st = "Ok" THEN skip_until_newline(text, r.pos) ELSE reader_behind(text, r)

\* decode as run calls it: expect panics when the encoding has no decoder;
\* the reader gives what is left of the input with one read.
run_decode(jd, n, rest) ==
    IF jd.st # "Ok"
    THEN decode_return(decode_begin(jd), "panic: honey water is of course prefix-free")
    ELSE decode_loop(jd, n, decode_begin(jd), rest, <<Len(rest)>>, <<>>).lp

\* run for Decode without --encoding-file, the input being text: [read,
\* from, ret, written], read being what read_encoding returned and from
\* the place of the first byte that decode read.
run_result(r, from, lp) ==
    [read |-> r.st, from |-> from, ret |-> lp.ret, written |-> lp.written]

run_from(n, text, r, jd, from) ==
    run_result(r, from, run_decode(jd, n, Rest(text, from)))

run(n, hajimi, text, r) ==
    run_from(n, text, r, JimiDecoder_from_encoding(run_encoding(n, hajimi, r)),
             run_input(text, r))

(***************************************************************************)
(* SpecStream: the encoding of equal frequencies is made for Bits8, the    *)
(* width of the command line, with its encoder and its decoder; decode     *)
(* reads a text from a reader that gives it in reads of chosen lengths,    *)
(* and run decodes an input with or without an enclosed encoding.  The     *)
(* token table of the model stands where run has hajimi_tokens(), whose    *)
(* costs 6, 9 and 12 have no root among the f32 of positive_roots.         *)
(* cipher is [call, out, reads], decoded the result.                       *)
(***************************************************************************)
\* The inputs encoded: none and one byte.
StreamInputs == { <<>>, <<182>> }

\* The lengths of the reads of a reader that gives k bytes at a time.
ReadLens == {1, 2, 3}

RECURSIVE reads_of(_, _)
reads_of(len, k) ==
    IF len = 0 THEN <<>>
    ELSE IF len <= k THEN <<len>>
    ELSE <<k>> \o reads_of(len - k, k)

\* The reads of an input of len bytes: k bytes at a time, all at once, or
\* two reads.
Reads(len) ==
    {reads_of(len, k) : k \in ReadLens \cup {len}}
        \cup {<<i, len - i>> : i \in 1..(len - 1)}

\* The texts read for the honey water h: h, h without its last byte and
\* without its last two bytes, and h with the letter x behind or before it.
StreamTexts(h) ==
    {h, h \o <<120>>, <<120>> \o h}
        \cup {SubSeq(h, 1, Len(h) - k) : k \in {j \in 1..2 : j <= Len(h)}}

InitStream ==
    /\ \E tokens \in CliTables :
          jimi = JimiEncoding_new(8, tokens, finish(CounterAllEqual(8)))
    /\ jimi_encoder = Nil
    /\ jimi_decoder = Nil
    /\ plain = <<>>
    /\ cipher = Nil
    /\ decoded = Nil
    /\ NotJimiIdle

\* decode
DecodeReads ==
    /\ jimi_encoder # Nil
    /\ jimi_decoder # Nil
    /\ jimi_decoder.st = "Ok"
    /\ cipher = Nil
    /\ \E bytes \in StreamInputs :
          \E text \in StreamTexts(cli_encode(jimi_encoder, jimi.n, bytes)) :
             \E reads \in Reads(Len(text)) :
                /\ plain' = bytes
                /\ cipher' = [call |-> "decode", out |-> text, reads |-> reads]
                /\ decoded' = decode_loop(jimi_decoder, jimi.n,
                                          decode_begin(jimi_decoder),
                                          text, reads, <<>>)
    /\ UNCHANGED <<jimi, jimi_encoder, jimi_decoder>>
    /\ UNCHANGED notJimiVars

\* run with Command::Decode, without --encoding-file, for the output of
\* encode, alone or behind the encoding and a newline
RunDecode ==
    /\ jimi_encoder # Nil
    /\ jimi_decoder # Nil
    /\ cipher = Nil
    /\ \E bytes \in StreamInputs, enclosed \in BOOLEAN :
          \E text \in {IF enclosed
                       THEN encode_enclosing_encoding(jimi, jimi_encoder, bytes, FALSE)
                       ELSE cli_encode(jimi_encoder, jimi.n, bytes)} :
             /\ plain' = bytes
             /\ cipher' = [call |-> "run", out |-> text, reads |-> <<>>]
             /\ decoded' = run(jimi.n, jimi.tokens, text,
                               read_encoding(jimi.n, text))
    /\ UNCHANGED <<jimi, jimi_encoder, jimi_decoder>>
    /\ UNCHANGED notJimiVars

NextStream == Encoder \/ Decoder \/ DecodeReads \/ RunDecode

SpecStream == InitStream /\ [][NextStream]_vars

(***************************************************************************)
(* BitsMap as the Vec it holds (bits_key.rs).                              *)
(***************************************************************************)
\* Seq::succ of the symbols of the width n: None, here -1, after the
\* biggest.
succ(n, b) == IF b = 2^n - 1 THEN -1 ELSE b + 1

\* BitsIter::next, s being [now, items]: the symbol in now is given and
\* now becomes its successor.
BitsIter_next(n, s) ==
    IF s.now < 0 THEN s
    ELSE [now |-> succ(n, s.now), items |-> Append(s.items, s.now)]

\* BitsIter pulled up to k times, the first half and then the second.
RECURSIVE BitsIter_take(_, _, _)
BitsIter_take(n, s, k) ==
    IF s.now < 0 \/ k = 0 THEN s
    ELSE IF k = 1 THEN BitsIter_next(n, s)
    ELSE BitsIter_take(n, BitsIter_take(n, s, k \div 2), k - (k \div 2))

\* BitsIter pulled to its end, k and then twice as many times at once.
RECURSIVE BitsIter_all(_, _, _)
BitsIter_all(n, s, k) ==
    IF s.now < 0 THEN s.items ELSE BitsIter_all(n, BitsIter_take(n, s, k), 2 * k)

\* The symbols that BitsIter::begin_zero gives.
begin_zero(n) == BitsIter_all(n, [now |-> 0, items |-> <<>>], 1)

\* Iterator::zip: it ends with the shorter of the two.
zip(a, b) ==
    [i \in 1..(IF Len(a) < Len(b) THEN Len(a) ELSE Len(b)) |-> <<a[i], b[i]>>]

\* BitsMap::new
BitsMap_new(n, t) == [i \in 1..(2^n) |-> t]

\* BitsMap::iter
BitsMap_iter(n, vec) == zip(begin_zero(n), vec)

\* BitsMap::map: the closure is called with each pair that iter gives and
\* the results are collected.
collect_map(pairs, f(_, _)) == [i \in 1..Len(pairs) |-> f(pairs[i][1], pairs[i][2])]

BitsMap_map(n, vec, f(_, _)) == collect_map(BitsMap_iter(n, vec), f)

(***************************************************************************)
(* BitsIter with both its fields (bits_key.rs): now, and before, the       *)
(* symbol after which the iterator ends; None is -1.                       *)
(***************************************************************************)
\* BitsIter::closed_interval
closed_interval(left, right) == [now |-> left, before |-> right]

\* BitsIter::begin_zero, the iterator itself.
BitsIter_begin_zero == [now |-> 0, before |-> -1]

\* A variant of Iterator::next of BitsIter that does not look at before.
BitsIter_pull_on(n, it) ==
    IF it.now < 0 THEN [r |-> -1, it |-> it]
    ELSE [r |-> it.now, it |-> [it EXCEPT !.now = succ(n, it.now)]]

\* Iterator::next of BitsIter: r is the item returned, None when now is
\* None; now becomes its successor, or None when r is before.
BitsIter_pull(n, it) ==
    IF it.now < 0 THEN [r |-> -1, it |-> it]
    ELSE [r  |-> it.now,
          it |-> [it EXCEPT !.now = IF it.before >= 0 /\ it.now = it.before
                                    THEN -1 ELSE succ(n, it.now)]]

(***************************************************************************)
(* SpecIter: a BitsIter of each width is made by closed_interval, with its *)
(* ends among the first and the last symbols, or by begin_zero, and pulled *)
(* to its end and twice more.  width is N, padded the iterator, sink tells *)
(* how it was made, the items it gave and how often it returned None.      *)
(***************************************************************************)
IntervalEnds(n) == {0, 1, 7, 2^n - 2, 2^n - 1}

InitIter ==
    /\ width \in Widths
    /\ arr = <<>>
    /\ padded = Nil
    /\ sink = Nil
    /\ NotBitsIdle

ClosedInterval ==
    /\ padded = Nil
    /\ \E l, r \in IntervalEnds(width) :
          /\ l <= r
          /\ padded' = closed_interval(l, r)
          /\ sink' = [made |-> "closed_interval", l |-> l, r |-> r,
                      items |-> <<>>, nones |-> 0]
    /\ UNCHANGED <<width, arr>>
    /\ UNCHANGED notBitsVars

BeginZero ==
    /\ padded = Nil
    /\ padded' = BitsIter_begin_zero
    /\ sink' = [made |-> "begin_zero", l |-> 0, r |-> 2^width - 1,
                items |-> <<>>, nones |-> 0]
    /\ UNCHANGED <<width, arr>>
    /\ UNCHANGED notBitsVars

PullIter ==
    /\ padded # Nil
    /\ sink.nones < 2
    /\ \E p \in {BitsIter_pull(width, padded)} :
          /\ padded' = p.it
          /\ sink' = IF p.r < 0 THEN [sink EXCEPT !.nones = @ + 1]
                     ELSE [sink EXCEPT !.items = Append(@, p.r)]
    /\ UNCHANGED <<width, arr>>
    /\ UNCHANGED notBitsVars

NextIter == ClosedInterval \/ BeginZero \/ PullIter

SpecIter == InitIter /\ [][NextIter]_vars

(***************************************************************************)
(* SpecTable: BitsMaps of codes are made by new, by map and by reading a   *)
(* JSON list of some length.  width is N, arr the Vec of the last table    *)
(* made, sink tells the last operation: [op, given, st, vec], given being  *)
(* the length of the list read and vec the Vec of the table it made.       *)
(***************************************************************************)
MaxEntryLen == 2

\* The lengths of the lists read: too short, right and too long.
ListLengths(n) == {0, 1, 2^n - 1, 2^n, 2^n + 1, 2 * 2^n}

Made(op, given, r) == [op |-> op, given |-> given, st |-> r.st, vec |-> r.vec]

InitTable ==
    /\ width \in Widths
    /\ arr = <<>>
    /\ padded = Nil
    /\ sink = Nil
    /\ NotBitsIdle

NewTable ==
    /\ sink = Nil
    /\ \E t \in {<<>>, <<0>>, <<1>>} :
          /\ arr' = BitsMap_new(width, t)
          /\ sink' = Made("new", 0, [st |-> "Ok", vec |-> BitsMap_new(width, t)])
    /\ UNCHANGED <<width, padded>>
    /\ UNCHANGED notBitsVars

\* map with a closure that joins the last bit of the symbol to the entry.
join_bit(b, t) == Append(t, b % 2)

MapTable ==
    /\ sink # Nil
    /\ arr # <<>>
    /\ Len(arr[1]) < MaxEntryLen
    /\ arr' = BitsMap_map(width, arr, join_bit)
    /\ sink' = Made("map", 0, [st |-> "Ok", vec |-> BitsMap_map(width, arr, join_bit)])
    /\ UNCHANGED <<width, padded>>
    /\ UNCHANGED notBitsVars

\* The first k entries of the table written twice.
ListOf(vec, k) == [i \in 1..k |-> vec[((i - 1) % Len(vec)) + 1]]

JsonList(codes) ==
    format_value(JArr([i \in 1..Len(codes) |->
                          JArr([j \in 1..Len(codes[i]) |-> JNum(codes[i][j])])]),
                 FALSE, 0)

\* serde_json::from_slice::<BitsMap<B, Code>> of a list of k codes.
DeserializeTable ==
    /\ sink # Nil
    /\ sink.op # "deserialize"
    /\ arr # <<>>
    /\ \E k \in ListLengths(width) :
          \E r \in {BitsMap_read(width, parse_value(JsonList(ListOf(arr, k)), 1).val)} :
             /\ sink' = Made("deserialize", k, r)
             /\ arr' = IF r.st = "Ok" THEN r.vec ELSE arr
    /\ UNCHANGED <<width, padded>>
    /\ UNCHANGED notBitsVars

NextTable == NewTable \/ MapTable \/ DeserializeTable

SpecTable == InitTable /\ [][NextTable]_vars





(***************************************************************************)
(* SpecCodec: a code table is built as in SpecBuild; then the codes that   *)
(* Encoder::encode gives for a sequence of symbols are put one after the   *)
(* other and Decoder::decode is pulled over these letters to its end.      *)
(* plain is the sequence of symbols, cipher.letters the letters, decoded   *)
(* the items pulled.                                                       *)
(***************************************************************************)
MaxSymbols == 3

CodedSymbols == {0, 5, 6, 15}

\* Encoder::from_encoding
Encoder_from_encoding(enc) == [char_encodings |-> enc.char2code]

\* A variant of Encoder::encode that returns the code of the next symbol.
Encoder_encode_next(encoder, b) ==
    encoder.char_encodings[(b + 1) % Cardinality(DOMAIN encoder.char_encodings)].code

\* Encoder::encode
Encoder_encode(encoder, b) == encoder.char_encodings[b].code

\* The items of Decoder::decode, which is iter::LexingIter over the dense
\* map, up to the end of the sequence and at most pulls of them.
RECURSIVE decode_pull(_, _, _)
RECURSIVE decode_pulled(_, _, _)
decode_pull(it, pulls, acc) ==
    IF pulls = 0 THEN acc ELSE decode_pulled(iter_next("dense", it), pulls, acc)

decode_pulled(r, pulls, acc) ==
    IF r.item.kind = "None" THEN acc
    ELSE IF r.item.kind = "panic" THEN Append(acc, r.item)
    ELSE decode_pull(r.iter, pulls - 1, Append(acc, r.item))

\* Decoder::decode over the letters, collected.
Decoder_decode(roots, letters) ==
    decode_pull(new(roots.map, letters), Len(letters) + 1, <<>>)

\* The test of decoder.rs 70-95 for a sequence of symbols.
EncodeDecode ==
    /\ encoding # Nil
    /\ encoding.st = "Ok"
    /\ decoded = Nil
    /\ \E syms \in SeqsUpTo(CodedSymbols, MaxSymbols) :
          \E letters \in {Flatten([k \in 1..Len(syms) |->
                             Encoder_encode(Encoder_from_encoding(encoding), syms[k])])} :
             /\ plain' = syms
             /\ cipher' = [letters |-> letters]
             /\ decoded' = [items |-> Decoder_decode(from_encoding(encoding), letters)]
    /\ UNCHANGED <<jimi, jimi_encoder, jimi_decoder>>
    /\ UNCHANGED <<treeVars, lexVars, bitsVars, buildVars>>

NextCodec == CountOne \/ Build \/ EncodeDecode

SpecCodec == InitBuild /\ [][NextCodec]_vars






(***************************************************************************)
(* SpecLexer: StringLexer::new on every table of at most MaxTokens tokens  *)
(* of at most MaxTokenLen characters (the empty token included).  The      *)
(* table is kept in suffice, labelled as iter_with_id labels it, and the   *)
(* characters of its tokens in code_letters.                               *)
(***************************************************************************)
MaxTokens   == 3
MaxTokenLen == 2

\* The characters 'a' (one byte in UTF-8) and U+00E9 (two bytes).
TokenChars == {97, 233}
AllTokens  == SeqsUpTo(TokenChars, MaxTokenLen)

\* The tokens of the table, by letter.
TokensOf(pairs) == [k \in 1..Len(pairs) |-> pairs[k][2]]

CharsOf(tokens) ==
    UNION {{tokens[k][j] : j \in 1..Len(tokens[k])} : k \in 1..Len(tokens)}

InitLexer ==
    /\ suffice = <<>>
    /\ code_letters = {}
    /\ tree = Nil
    /\ NotTreeIdle

\* One more token is put in the table.
AddToken ==
    /\ tree = Nil
    /\ Len(suffice) < MaxTokens
    /\ \E token \in AllTokens :
          /\ suffice' = Append(suffice, <<Len(suffice), token>>)
          /\ code_letters' = code_letters \cup {token[j] : j \in 1..Len(token)}
    /\ UNCHANGED tree
    /\ UNCHANGED notTreeVars

\* StringLexer::new
NewLexer ==
    /\ tree = Nil
    /\ tree' = StringLexer_new(TokensOf(suffice))
    /\ UNCHANGED <<suffice, code_letters>>
    /\ UNCHANGED notTreeVars

NextLexer == AddToken \/ NewLexer

SpecLexer == InitLexer /\ [][NextLexer]_vars

(***************************************************************************)
(* SpecNew: tokens are put in a table and JimiEncoding::new is called on   *)
(* it.  letter_costs is the LetterCosts that new passes to                 *)
(* Encoding::build.  The tables taken are those whose characteristic       *)
(* equation positive_roots is modelled for.                                *)
(***************************************************************************)
Solvable(costs) ==
    /\ Len(costs) >= 2
    /\ \A j \in 1..Len(costs) : costs[j] \in 1..2
    /\ \E k \in 1..4 : KraftSum(costs, k, 2) = 2^(k * 2)

\* JimiEncoding::new
NewEncoding ==
    /\ jimi = Nil
    /\ Solvable([j \in 1..Len(suffice) |-> String_len(suffice[j][2])])
    /\ letter_costs' = JimiEncoding_letters(TokensOf(suffice))
    /\ jimi' = JimiEncoding_new(BuildWidth, TokensOf(suffice),
                                finish(CounterAllEqual(BuildWidth)))
    /\ UNCHANGED <<treeVars, lexVars, bitsVars, counter, frequency, encoding>>
    /\ UNCHANGED <<jimi_encoder, jimi_decoder, plain, cipher, decoded>>

NextNew == AddToken \/ NewEncoding

SpecNew == InitLexer /\ [][NextNew]_vars


(***************************************************************************)
(* Reference definitions used by the properties: they read the trie and    *)
(* the code table directly and do not go through next.                     *)
(***************************************************************************)
Last(q) == q[Len(q)]
AllButLast(q) == SubSeq(q, 1, Len(q) - 1)

\* The letters of input items, and whether every item is a letter.
InLetter(x)   == IF lexer.variant = "iter" THEN x ELSE x.i
InIsLetter(x) == lexer.variant = "iter" \/ x.ok
LettersIn(q)  == [k \in 1..Len(q) |-> InLetter(q[k])]
AllLetters(q) == \A k \in 1..Len(q) : InIsLetter(q[k])

LabelsOf(items) ==
    LET oks == SelectSeq(items, LAMBDA x : x.kind = "Ok")
    IN  [k \in 1..Len(oks) |-> oks[k].label]

\* The items that are neither the end of the sequence nor an
\* UnexpectedTermination.
Hard(items) ==
    SelectSeq(items, LAMBDA x : x.kind \notin {"None", "UnexpectedTermination"})

\* The node reached from map m along the letters w, as long as every
\* letter leads to an Inner node.
RECURSIVE WalkInner(_, _)
WalkInner(m, w) ==
    IF w = <<>> THEN [ok |-> TRUE, map |-> m]
    ELSE IF Head(w) \in DOMAIN m /\ m[Head(w)].tag = "Inner"
         THEN WalkInner(m[Head(w)].map, Tail(w))
         ELSE [ok |-> FALSE, map |-> m]

\* The labels of the codes completed in the letters w, read greedily from
\* the code table; of two equal codes the later pair gives the label.
RECURSIVE RefParse(_, _, _)
RefParse(codes, w, pending) ==
    IF w = <<>> THEN <<>>
    ELSE LET p    == Append(pending, Head(w))
             hits == {k \in 1..Len(codes) : codes[k] = p}
         IN  IF hits # {}
             THEN <<(CHOOSE k \in hits : \A j \in hits : j <= k) - 1>>
                      \o RefParse(codes, Tail(w), <<>>)
             ELSE RefParse(codes, Tail(w), p)

\* All the items of an iterator pulled until it ends, reports an
\* UnexpectedTermination or panics, and the iterator left behind.
RECURSIVE Drain(_, _)
Drain(lx, it) ==
    LET r == next(lx, it)
    IN  IF r.item.kind \in {"None", "UnexpectedTermination", "panic"}
        THEN [items |-> <<r.item>>, iter |-> r.iter]
        ELSE LET d == Drain(lx, r.iter)
             IN  [items |-> <<r.item>> \o d.items, iter |-> d.iter]

\* The last step was a pull (and not a cont).
Pulled ==
    /\ lexer # Nil
    /\ hist.out # <<>>
    /\ (hist.conts = 0 \/ Len(hist.out) > hist.cut)
LastItem    == Last(hist.out)
\* The last pull walked every item it read through Inner nodes and found
\* the input used up.
ReachedEnd ==
    /\ iter.incoming = <<>>
    /\ AllLetters(hist.pulled)
    /\ WalkInner(hist.before.current_tree, LettersIn(hist.pulled)).ok
\* The last pull ended the walk of an exhausted input (it was not stopped
\* by an item) and the caller has not continued the iterator since.
AtEnd == Pulled /\ iter.incoming = <<>> /\ LastItem.kind \in {"None", "UnexpectedTermination"}

(***************************************************************************)
(* C2.  Streaming equivalence: an iterator continued with cont over a      *)
(* second chunk returns, the items reporting the chunk boundary aside,     *)
(* the items of one iterator over the two chunks in one piece, and ends    *)
(* in the same node with the same pending prefix.                          *)
(***************************************************************************)
ContEquivalence ==
    (lexer # Nil /\ hist.conts > 0) =>
        LET ref == Drain(lexer, new(iter.roots, hist.read \o iter.incoming))
        IN  /\ IsPrefix(Hard(hist.out), Hard(ref.items))
            /\ LabelsOf(hist.out) = SubSeq(LabelsOf(ref.items), 1, Len(LabelsOf(hist.out)))
            /\ (Panicked \/ AtEnd) =>
                  /\ Hard(hist.out) = Hard(ref.items)
                  /\ LabelsOf(hist.out) = LabelsOf(ref.items)
                  /\ LastItem = Last(ref.items)
                  /\ iter.prefix = ref.iter.prefix
                  /\ iter.current_tree = ref.iter.current_tree

\* A code begun in the first chunk is completed in the second.
ContWitness ==
    /\ lexer # Nil /\ hist.conts > 0
    /\ hist.contPrefix # <<>>
    /\ AtEnd
    /\ \E j \in (hist.cut + 1)..Len(hist.out) : hist.out[j].kind = "Ok"

(***************************************************************************)
(* C6.  Every letter is handled according to the node it is looked up in:  *)
(* absent from the map: Invalid(letter); an Invalid node:                  *)
(* Unexpected(prefix, letter); a Leaf: the label, the prefix cleared and   *)
(* the walk back at the root; an Inner node: nothing returned, the letter  *)
(* appended to the prefix and the walk one level down.                     *)
(***************************************************************************)
LetterHandling ==
    (Pulled /\ hist.pulled # <<>>) =>
        IF ReachedEnd
        THEN \* every letter read was an Inner step
             /\ iter.prefix = hist.before.prefix \o LettersIn(hist.pulled)
             /\ iter.current_tree =
                    WalkInner(hist.before.current_tree, LettersIn(hist.pulled)).map
        ELSE LET w    == LettersIn(AllButLast(hist.pulled))
                 x    == Last(hist.pulled)
                 at   == WalkInner(hist.before.current_tree, w)
                 p    == hist.before.prefix \o w
             IN  /\ AllLetters(AllButLast(hist.pulled))
                 /\ at.ok
                 /\ InIsLetter(x) =>
                      LET i == InLetter(x)
                      IN  IF i \notin DOMAIN at.map
                          THEN /\ LastItem = ItemInvalid(i)
                               /\ iter.prefix = p /\ iter.current_tree = at.map
                          ELSE CASE at.map[i].tag = "Invalid" ->
                                      /\ LastItem = ItemUnexpected(p, i)
                                      /\ iter.prefix = p /\ iter.current_tree = at.map
                                 [] at.map[i].tag = "Leaf" ->
                                      /\ LastItem = ItemOk(at.map[i].label)
                                      /\ iter.prefix = <<>>
                                      /\ iter.current_tree = iter.roots
                                 [] at.map[i].tag = "Inner" -> FALSE

\* The same, for a trie whose map answers None for an absent letter.
LetterHandlingHashMap == (lexer # Nil /\ lexer.kind = "hash") => LetterHandling

(***************************************************************************)
(* C7.  A pull that finds the input used up returns                        *)
(* UnexpectedTermination(prefix) when the pending prefix is not empty and  *)
(* the end of the sequence exactly when it is empty; no other pull         *)
(* returns either of them.                                                 *)
(***************************************************************************)
ExhaustedPull ==
    Pulled =>
        LET p == hist.before.prefix \o LettersIn(hist.pulled)
        IN  /\ ReachedEnd =>
                 /\ LastItem = IF p = <<>> THEN ItemNone
                               ELSE ItemUnexpectedTermination(p)
                 /\ iter.prefix = p
            /\ LastItem.kind = "None" => ReachedEnd /\ p = <<>>
            /\ LastItem.kind = "UnexpectedTermination" => ReachedEnd /\ p # <<>>

\* The input ends two letters into a code.
ExhaustedWitness ==
    /\ Pulled /\ ReachedEnd
    /\ LastItem.kind = "UnexpectedTermination"
    /\ Len(LastItem.prefix) >= 2
    /\ hist.pulled # <<>>

(***************************************************************************)
(* C8.  A pull that returns Invalid, Unexpected or Parent leaves the node  *)
(* and the prefix as they were before the offending item was read, and     *)
(* the labels returned over all pulls are those of the input without the   *)
(* offending items.                                                        *)
(***************************************************************************)
ErrorFrame ==
    (Pulled /\ ~Panicked) =>
        LET ref == Drain(lexer, new(iter.roots, hist.clean))
        IN  /\ LastItem.kind \in {"Invalid", "Unexpected", "Parent"} =>
                 LET w  == LettersIn(AllButLast(hist.pulled))
                     at == WalkInner(hist.before.current_tree, w)
                 IN  /\ hist.pulled # <<>>
                     /\ at.ok
                     /\ iter.current_tree = at.map
                     /\ iter.prefix = hist.before.prefix \o w
            /\ LabelsOf(hist.out) = LabelsOf(ref.items)
            /\ iter.prefix = ref.iter.prefix
            /\ iter.current_tree = ref.iter.current_tree

\* An Unexpected letter inside a code, and the code completed after it.
ErrorFrameWitness ==
    /\ Pulled
    /\ LastItem.kind = "Ok"
    /\ \E j \in 1..(Len(hist.out) - 1) :
          /\ hist.out[j].kind = "Unexpected"
          /\ hist.out[j].prefix # <<>>
          /\ \A k \in (j + 1)..(Len(hist.out) - 1) : hist.out[k].kind # "Ok"
    /\ Len(hist.pulled) = 1

(***************************************************************************)
(* C9.  A pull reads no further than the item that gives its result, and   *)
(* the labels returned are those of the codes completed in the letters     *)
(* read, in the order of their last letters.                               *)
(***************************************************************************)
LabelOrder ==
    (Pulled /\ ~Panicked) =>
        LET w == LettersIn(hist.clean)
        IN  /\ LabelsOf(hist.out) = RefParse(lexer.codes, w, <<>>)
            /\ LastItem.kind = "Ok" =>
                 LET cd == lexer.codes[LastItem.label + 1]
                 IN  /\ Len(cd) <= Len(w)
                     /\ SubSeq(w, Len(w) - Len(cd) + 1, Len(w)) = cd
                     /\ hist.pulled # <<>>
            /\ LastItem.kind \in {"Invalid", "Unexpected"} =>
                 /\ hist.pulled # <<>>
                 /\ InIsLetter(Last(hist.pulled))
                 /\ LastItem.letter = InLetter(Last(hist.pulled))
            /\ LastItem.kind = "Parent" =>
                 /\ hist.pulled # <<>>
                 /\ ~InIsLetter(Last(hist.pulled))
                 /\ LastItem.err = Last(hist.pulled).e

\* Two different labels returned one after the other.
LabelOrderWitness ==
    /\ Pulled
    /\ Len(LabelsOf(hist.out)) >= 2
    /\ LabelsOf(hist.out)[1] # LabelsOf(hist.out)[2]
    /\ iter.incoming # <<>>

(***************************************************************************)
(* C10.  build_tree returns NonPrefixFreeError whenever one code of its    *)
(* input is a strict prefix of another, in either order and at any depth,  *)
(* and Ok for a prefix-free input of non-empty codes.                      *)
(***************************************************************************)
Built == tree # Nil
CodeAt(k) == suffice[k][2]
HasStrictPrefixPair ==
    \E i, j \in 1..Len(suffice) : IsStrictPrefix(CodeAt(i), CodeAt(j))
NoEmptyCode == \A k \in 1..Len(suffice) : CodeAt(k) # <<>>

BuildTreeDetects ==
    Built =>
        /\ HasStrictPrefixPair => tree.st = "NonPrefixFreeError"
        /\ (~HasStrictPrefixPair /\ NoEmptyCode) => tree.st = "Ok"

\* The same, for inputs without an empty code.
BuildTreeDetectsNonEmpty == NoEmptyCode => BuildTreeDetects

(***************************************************************************)
(* C5.  concat applied to the symbols of iter_bytes writes the input       *)
(* bytes followed by zero bytes up to the next group boundary (a multiple  *)
(* of three bytes for width 6, no padding for widths 4 and 8), and the     *)
(* first original_length bytes written are the input.                      *)
(***************************************************************************)
Boundary(n, len) == IF n = 6 THEN ((len + 2) \div 3) * 3 ELSE len

PackRoundTrip ==
    (width # 0 /\ sink # Nil) =>
        /\ sink.st = "Ok"
        /\ padded.original_length = Len(arr)
        /\ Len(sink.written) = Boundary(width, Len(arr))
        /\ SubSeq(sink.written, 1, padded.original_length) = arr
        /\ \A k \in (Len(arr) + 1)..Len(sink.written) : sink.written[k] = 0
        /\ Len(padded.data) * width = 8 * Len(sink.written)
        /\ \A k \in 1..Len(padded.data) : padded.data[k] \in 0..(2^width - 1)

\* Four bytes of width 6: two bytes of padding are written after them.
PackWitness ==
    /\ width = 6 /\ sink # Nil
    /\ Len(arr) = 4
    /\ Len(sink.written) = 6
    /\ \A k \in 1..4 : arr[k] \notin {0, 255}


(***************************************************************************)
(* C3.  A code table that Encoding::build returns holds no code that is a  *)
(* prefix of, or equal to, the code of another symbol, and                 *)
(* Decoder::from_encoding builds its trie from it without a prefix-free    *)
(* violation.                                                              *)
(***************************************************************************)
BuildReturned == encoding # Nil /\ encoding.st = "Ok"

BuiltPrefixFree ==
    BuildReturned =>
        /\ \A a, b \in DOMAIN encoding.char2code :
              a # b => ~IsPrefix(encoding.char2code[a].code, encoding.char2code[b].code)
        /\ from_encoding(encoding).st = "Ok"

\* A table for an uneven distribution: codes of different lengths.
BuiltWitness ==
    /\ BuildReturned
    /\ counter.total = 2
    /\ \E a, b \in DOMAIN encoding.char2code :
          Len(encoding.char2code[a].code) + 2 <= Len(encoding.char2code[b].code)

(***************************************************************************)
(* C4.  After Encoding::build every symbol has a code: the build sets the  *)
(* code of each symbol exactly once (set_code never finds a code already   *)
(* set, finish never finds a symbol without one), and no code is empty.    *)
(***************************************************************************)
BuildCalled == encoding # Nil /\ encoding.st # FinishPanic.st

EverySymbolCoded ==
    BuildCalled =>
        /\ encoding.st = "Ok"
        /\ \A b \in Symbols(BuildWidth) :
              encoding.char2code[b].some /\ encoding.char2code[b].code # <<>>

(***************************************************************************)
(* C1.  Round trip: for every byte sequence and each symbol width (4, 6    *)
(* and 8 bits), JimiDecoder::decode of the concatenation of the token      *)
(* slices of JimiEncoder::encode(bytes) returns Ok and the first           *)
(* original_length bytes it writes are the input bytes.                    *)
(***************************************************************************)
Decoded == jimi # Nil /\ decoded # Nil

RoundTripHolds ==
    /\ decoded.st = "Ok"
    /\ cipher.original_length = Len(plain)
    /\ Len(decoded.written) >= cipher.original_length
    /\ SubSeq(decoded.written, 1, cipher.original_length) = plain

RoundTrip == Decoded => RoundTripHolds

\* The same for the token tables in which no token occurs twice.
DistinctTokens ==
    \A j, k \in 1..Len(jimi.tokens) : j # k => jimi.tokens[j] # jimi.tokens[k]

RoundTripDistinctTokens == (Decoded /\ DistinctTokens) => RoundTripHolds

\* Two bytes that are neither all zeros nor all ones come back, for a
\* table with tokens of two lengths and the width that pads.
RoundTripDistinctWitness ==
    /\ Decoded /\ DistinctTokens
    /\ jimi.n = 6 /\ Len(jimi.tokens) = 3
    /\ plain = <<182, 182>>
    /\ Len(decoded.written) = 3

(***************************************************************************)
(* C11.  StringLexer::new fails with the prefix-free error for every       *)
(* token table in which the token of one letter is a prefix of the token   *)
(* of another letter, two letters with the same token included, and        *)
(* returns a lexer for every other table.                                  *)
(***************************************************************************)
LexerBuilt == tree # Nil /\ code_letters = CharsOf(TokensOf(suffice))

HasPrefixPair ==
    \E i, j \in 1..Len(suffice) : i # j /\ IsPrefix(CodeAt(i), CodeAt(j))

HasEqualPair ==
    \E i, j \in 1..Len(suffice) : i # j /\ CodeAt(i) = CodeAt(j)

\* Stated for the tables of non-empty tokens: an empty token ends
\* build_tree in Code::head (C10) whatever the other tokens are.
LexerRejectsPrefixes ==
    (LexerBuilt /\ NoEmptyCode) =>
        /\ HasPrefixPair => tree.st = "NonPrefixFreeError"
        /\ ~HasPrefixPair => tree.st = "Ok"

\* The same for the tables of non-empty tokens in which no two letters
\* have the same token.
LexerRejectsStrictPrefixes ==
    (LexerBuilt /\ NoEmptyCode /\ ~HasEqualPair) =>
        /\ HasPrefixPair => tree.st = "NonPrefixFreeError"
        /\ ~HasPrefixPair => tree.st = "Ok"

\* "ab" after "a" is rejected.
LexerRejectsWitness ==
    /\ LexerBuilt
    /\ TokensOf(suffice) = << <<97>>, <<97, 233>> >>
    /\ tree.st = "NonPrefixFreeError"

(***************************************************************************)
(* C12.  The letter-level decoder (the trie over the dense map) returns    *)
(* Invalid(letter), as a value, for every input letter outside the         *)
(* alphabet, in Decoder::decode and in Decoder::decode_from_error.         *)
(***************************************************************************)
\* The last pull of a dense-map decoder ended on a letter outside the
\* alphabet 0..n_letters - 1.
ReadOutside ==
    /\ Pulled
    /\ lexer.kind = "dense"
    /\ hist.pulled # <<>>
    /\ InIsLetter(Last(hist.pulled))
    /\ InLetter(Last(hist.pulled)) \notin DOMAIN iter.roots

OutsideIsInvalid ==
    ReadOutside =>
        /\ LastItem = ItemInvalid(InLetter(Last(hist.pulled)))
        /\ iter.prefix = hist.before.prefix \o LettersIn(AllButLast(hist.pulled))

(***************************************************************************)
(* C13.  For every width, concat returns Parent(e) for the first Err item  *)
(* e of the sequence, wherever the item is (in a complete group or in the  *)
(* trailing incomplete one), and Io when a write of the sink fails; it     *)
(* does not return Ok for a sequence that holds an Err.                    *)
(***************************************************************************)
ErrPositions == {k \in 1..Len(padded.data) : ~padded.data[k].ok}
FirstErr     == padded.data[SetMin(ErrPositions)]
\* The items of the complete groups.
InGroups     == (Len(padded.data) \div GroupSize(width)) * GroupSize(width)
\* The writes made before the group of item k is reached.
WritesBefore(k) == (k - 1) \div GroupSize(width)
Refuses(k)   == sink.room >= 0 /\ sink.room < k

FirstErrorReturned ==
    (width # 0 /\ Called) =>
        /\ (ErrPositions # {} /\ ~Refuses(WritesBefore(SetMin(ErrPositions)))) =>
              sink.st = "Parent" /\ sink.e = FirstErr.e
        /\ ErrPositions # {} => sink.st # "Ok"
        /\ (ErrPositions = {} /\ Refuses(Len(padded.data) \div GroupSize(width))) =>
              sink.st = "Io"

\* The same, when the first Err lies in a complete group.
FirstErrorInGroups ==
    (width # 0 /\ Called) =>
        /\ ( /\ ErrPositions # {}
             /\ SetMin(ErrPositions) <= InGroups
             /\ ~Refuses(WritesBefore(SetMin(ErrPositions))) ) =>
              sink.st = "Parent" /\ sink.e = FirstErr.e
        /\ (\A k \in ErrPositions : k > InGroups) =>
              IF Refuses(InGroups \div GroupSize(width))
              THEN sink.st = "Io" ELSE sink.st = "Ok"

(***************************************************************************)
(* C14.  For a sequence of n Ok symbols, concat into a Vec writes          *)
(* floor(n / g) groups, of g = 1, 2, 4 symbols and 1, 1, 3 bytes for the   *)
(* widths 8, 4, 6, each holding the bits of its symbols in their order,    *)
(* writes nothing for the n mod g symbols left over, and returns Ok.       *)
(***************************************************************************)
BytesPerGroup(n) == (GroupSize(n) * n) \div 8

\* The number whose digits, most significant first, are the items of q in
\* base 2^bits.
RECURSIVE AsNumber(_, _, _)
AsNumber(q, bits, acc) ==
    IF q = <<>> THEN acc ELSE AsNumber(Tail(q), bits, acc * 2^bits + Head(q))

WholeGroups ==
    (width # 0 /\ Called /\ ErrPositions = {} /\ sink.room = -1) =>
        LET n == Len(padded.data)
            g == GroupSize(width)
            b == BytesPerGroup(width)
        IN  /\ sink.st = "Ok"
            /\ Len(sink.written) = (n \div g) * b
            /\ \A k \in 1..(n \div g) :
                  AsNumber(SubSeq(sink.written, (k - 1) * b + 1, k * b), 8, 0)
                    = AsNumber([j \in 1..g |-> padded.data[(k - 1) * g + j].x],
                               width, 0)

\* Five symbols of width 6: one group is written, the fifth symbol is not.
WholeGroupsWitness ==
    /\ width = 6 /\ Called /\ ErrPositions = {} /\ sink.room = -1
    /\ Len(padded.data) = 5
    /\ padded.data[5].x # 0
    /\ Len(sink.written) = 3
    /\ sink.written[1] # 0

(***************************************************************************)
(* C15.  JimiEncoding::decoder returns the error as a value, and does not  *)
(* abort, both when a token is a strict prefix of another token and when   *)
(* the code of a symbol is a strict prefix of the code of another symbol.  *)
(***************************************************************************)
DecoderCalled == jimi # Nil /\ jimi_decoder # Nil

TokenClash ==
    \E i, j \in 1..Len(jimi.tokens) :
        i # j /\ IsStrictPrefix(jimi.tokens[i], jimi.tokens[j])

CodeClash ==
    \E s, t \in DOMAIN jimi.encoding.char2code :
        s # t /\ IsStrictPrefix(jimi.encoding.char2code[s].code,
                                jimi.encoding.char2code[t].code)

DecoderReportsClash ==
    (DecoderCalled /\ (TokenClash \/ CodeClash)) =>
        jimi_decoder.st = "LexemError"

\* What the code does: the token table is tested first and its error is
\* returned; a clash in the code table alone ends in the abort.
DecoderReportsTokenClash ==
    DecoderCalled =>
        /\ TokenClash => jimi_decoder.st = "LexemError"
        /\ (CodeClash /\ ~TokenClash) => jimi_decoder.st = "panic"

DecoderTokenClashWitness ==
    DecoderCalled /\ TokenClash /\ ~CodeClash /\ jimi_decoder.st = "LexemError"

(***************************************************************************)
(* C17.  JimiEncoding::new gives each letter the number of characters of   *)
(* its token as cost, also when a character takes several bytes.           *)
(***************************************************************************)
NewCalled == jimi # Nil /\ letter_costs # Nil

CostIsCharCount ==
    NewCalled =>
        \A j \in 1..Len(jimi.tokens) :
            letter_costs.costs[j] = Len(jimi.tokens[j])

\* The cost is the number of bytes, which is the number of characters for
\* tokens of one-byte characters only.
CostIsByteLength ==
    NewCalled =>
        \A j \in 1..Len(jimi.tokens) :
            /\ letter_costs.costs[j] = String_len(jimi.tokens[j])
            /\ (\A i \in 1..Len(jimi.tokens[j]) : jimi.tokens[j][i] < 128)
                  => letter_costs.costs[j] = Len(jimi.tokens[j])

CostIsByteLengthWitness ==
    /\ NewCalled
    /\ jimi.tokens = << <<97>>, <<233>>, <<97, 97>> >>
    /\ letter_costs.costs = <<1, 2, 2>>
    /\ jimi.encoding.st = "Ok"

(***************************************************************************)
(* C18.  Every error of decode_to_bits carries the layer it comes from: an *)
(* error of the lexer over the characters is Lexing with the same kind and *)
(* the same characters; an error of the decoder over the letters is        *)
(* Hajiman with the same kind, the tokens of the letters of its prefix in  *)
(* the same order and the token of its letter.  The Lexing errors are the  *)
(* errors of the lexer in the order in which the lexer gave them.          *)
(***************************************************************************)
TextDecoded == decoded # Nil /\ cipher # Nil /\ "chars" \in DOMAIN decoded

ErrorsOf(items)  == SelectSeq(items, LAMBDA x : x.kind # "Ok")
LexingOf(bits)   ==
    LET errs == SelectSeq(bits, LAMBDA b : ~b.ok /\ b.e.tag = "Lexing")
    IN  [k \in 1..Len(errs) |-> errs[k].e.err]

SameLetters(jd, raw, out) ==
    /\ out.kind = raw.kind
    /\ Len(out.prefix) = Len(raw.prefix)
    /\ \A k \in 1..Len(raw.prefix) : out.prefix[k] = jd.tokens[raw.prefix[k] + 1]
    /\ raw.kind \in {"Unexpected", "Invalid"} => out.letter = jd.tokens[raw.letter + 1]

TaggedAs(jd, raw, bit) ==
    IF raw.kind = "Ok" THEN bit.ok /\ bit.x = raw.label
    ELSE /\ ~bit.ok
         /\ IF raw.kind = "Parent"
            THEN bit.e.tag = "Lexing" /\ bit.e.err = raw.err
            ELSE bit.e.tag = "Hajiman" /\ SameLetters(jd, raw, bit.e.err)

ErrorLayers ==
    TextDecoded =>
        /\ Len(decoded.bits) = Len(decoded.chars)
        /\ \A k \in 1..Len(decoded.chars) :
              TaggedAs(jimi_decoder, decoded.chars[k], decoded.bits[k])
        /\ LET lexing == LexingOf(decoded.bits)
               lexed  == ErrorsOf(decoded.lexed)
           IN  /\ Len(lexing) <= Len(lexed)
               /\ \A k \in 1..Len(lexing) : lexing[k] = lexed[k]

\* "xab" for the tokens "a", "bb", "ba": the lexer gives Invalid('x'), the
\* letter of "a" and then UnexpectedTermination("b"); the decoder is left
\* inside a code.
ErrorLayersWitness ==
    /\ TextDecoded
    /\ cipher.text = <<120, 97, 98>>
    /\ jimi.tokens = << <<97>>, <<98, 98>>, <<98, 97>> >>
    /\ Len(decoded.bits) >= 2
    /\ decoded.bits[1].e.tag = "Lexing"
    /\ decoded.bits[1].e.err.kind = "Invalid"
    /\ decoded.bits[2].e.tag = "Lexing"
    /\ decoded.bits[2].e.err.kind = "UnexpectedTermination"

\* "a" ends inside a code: the decoder's UnexpectedTermination carries the
\* token "a" for the letter 0.
ErrorLayersHajimanWitness ==
    /\ TextDecoded
    /\ cipher.text = <<97>>
    /\ Len(decoded.bits) >= 1
    /\ ~decoded.bits[1].ok
    /\ decoded.bits[1].e.tag = "Hajiman"
    /\ decoded.bits[1].e.err.kind = "UnexpectedTermination"
    /\ decoded.bits[1].e.err.prefix = << <<97>> >>

(***************************************************************************)
(* C16.  After every sequence of update and encode calls of the web UI's   *)
(* JimiState that did not abort, encoder and decoder are the ones made     *)
(* from the current encoding; an update that returns an error leaves       *)
(* encoding, encoder and decoder as they were.                             *)
(***************************************************************************)
StateRuns == cipher # Nil /\ "call" \in DOMAIN cipher /\ cipher.st # "panic"

StateDerived ==
    StateRuns =>
        /\ jimi_encoder = JimiEncoder_from_encoding(jimi)
        /\ jimi_decoder = JimiDecoder_from_encoding(jimi)

\* The encoder is always the current encoding's; the decoder is after every
\* update, and every encode of a non-empty input, that returned without an
\* error.
StateDerivedAfterOk ==
    StateRuns =>
        /\ jimi_encoder = JimiEncoder_from_encoding(jimi)
        /\ (cipher.st = "Ok" /\ (cipher.call = "update" \/ cipher.text # <<>>))
              => jimi_decoder = JimiDecoder_from_encoding(jimi)

StateDerivedWitness ==
    /\ StateRuns
    /\ cipher.call = "encode"
    /\ cipher.st = "Ok"
    /\ cipher.text # <<>>
    /\ jimi.tokens = ui_tokens
    /\ Len(plain) = 2 /\ plain[1] = 0

(***************************************************************************)
(* C19.  For a code table that Encoding::build returned, for counted and   *)
(* for equal frequencies, and every sequence of symbols, Decoder::decode   *)
(* over the codes of the symbols put one after the other returns the       *)
(* symbols in their order, each as an Ok item, and nothing else.           *)
(***************************************************************************)
CodecDone == decoded # Nil /\ "items" \in DOMAIN decoded

CodecRoundTrip ==
    CodecDone => decoded.items = [k \in 1..Len(plain) |-> ItemOk(plain[k])]

\* A table trained on two counted symbols decodes three different symbols.
CodecRoundTripWitness ==
    /\ CodecDone
    /\ counter.total = 2
    /\ plain = <<5, 0, 15>>
    /\ Len(decoded.items) = 3
    /\ Len(cipher.letters) > 3

(***************************************************************************)
(* C20.  For a counter in which at least one symbol was counted, finish    *)
(* returns, and does not abort; every symbol's frequency is greater than   *)
(* zero and the frequencies, summed in f32 in symbol order, are within     *)
(* 1e-4 of one.                                                            *)
(***************************************************************************)
Finished == frequency # Nil /\ counter.total > 0

FinishDistribution ==
    Finished =>
        /\ frequency.st = "Ok"
        /\ \A b \in DOMAIN frequency._freq : F32Lt(F32Zero, frequency._freq[b])
        /\ F32Lt(F32AbsDiff(SumFrom(frequency._freq, 0, F32Zero), F32One), Lit1em4)

\* Bits8 with one symbol seen once and another 2^24 + 1 times: 254 symbols
\* share the smoothing mass.
FinishDistributionWitness ==
    /\ Finished
    /\ Cardinality(DOMAIN counter.counts) = 256
    /\ counter.counts[5] = 1
    /\ counter.counts[15] = 16777217
    /\ counter.counts[0] = 0
    /\ frequency.st = "Ok"

(***************************************************************************)
(* C21.  In every frequency table made, accu_freq of the first symbol is   *)
(* its frequency and accu_freq of every other symbol is accu_freq of the   *)
(* symbol before plus its frequency (for the tables of at most 64 symbols  *)
(* also compared with the sum of the frequencies up to the symbol);        *)
(* accu_freq2 is accu_freq less half the frequency; accu_freq does not     *)
(* decrease and its last element is within 1e-4 of one.  For the counts    *)
(* 1, 3, 4, 2 of the symbols 0..3 the unsmoothed table is within 1e-6 of   *)
(* the values of test_character_frequency.                                 *)
(***************************************************************************)
Lit1em6 == F32(8796093, -43)        \* 1e-6

\* approx of the tests: (a - b).abs() < 1e-6
approx(a, b) == F32Lt(F32AbsDiff(a, b), Lit1em6)

\* The decimal literals of test_character_frequency as f32.
ExpectedFreq == << F32(13421773, -27), F32(10066330, -25),
                   F32(13421773, -25), F32(13421773, -26) >>

ExpectedAccu == << F32(13421773, -27), F32(13421773, -25),
                   F32(13421773, -24), F32One >>

ExpectedAccu2 == << Lit0_05, F32(8388608, -25),
                    F32(10066330, -24), F32(15099494, -24) >>

TableMade == frequency # Nil /\ frequency.st = "Ok"

Unsmoothed == TableMade /\ frequency._freq = freq(counter)

ExampleCounted ==
    /\ counter.counts[0] = 1
    /\ counter.counts[1] = 3
    /\ counter.counts[2] = 4
    /\ counter.counts[3] = 2

AccumulatedFrequencies ==
    /\ TableMade =>
          /\ frequency.accu_freq[0] = frequency._freq[0]
          /\ frequency.accu_freq2[0] = F32Div(frequency._freq[0], F32Two)
          /\ \A i \in DOMAIN frequency._freq \ {0} :
                /\ frequency.accu_freq[i] =
                      F32Add(frequency.accu_freq[i - 1], frequency._freq[i])
                /\ frequency.accu_freq2[i] =
                      F32Sub(frequency.accu_freq[i],
                             F32Div(frequency._freq[i], F32Two))
                /\ F32Le(frequency.accu_freq[i - 1], frequency.accu_freq[i])
          /\ Cardinality(DOMAIN frequency._freq) <= 64 =>
                \A i \in DOMAIN frequency._freq :
                   frequency.accu_freq[i] =
                      SumRange(frequency._freq, 0, i, F32Zero)
          /\ F32Lt(F32AbsDiff(frequency.accu_freq[SetMax(DOMAIN frequency._freq)],
                              F32One), Lit1em4)
    /\ Unsmoothed /\ ExampleCounted =>
          \A i \in ExampleSymbols :
             /\ approx(frequency._freq[i], ExpectedFreq[i + 1])
             /\ approx(frequency.accu_freq[i], ExpectedAccu[i + 1])
             /\ approx(frequency.accu_freq2[i], ExpectedAccu2[i + 1])

\* The counter of test_character_frequency, of Bits8.
AccumulatedFrequenciesWitness ==
    /\ Unsmoothed
    /\ ExampleCounted
    /\ Cardinality(DOMAIN counter.counts) = 256
    /\ frequency.accu_freq[3] = F32One

(***************************************************************************)
(* C22.  When LetterCosts::build returns Ok, the root c kept is greater    *)
(* than zero and the sum over the letters of c^cost, in f32, is within     *)
(* 1e-4 of one; when a letter has the cost 0, so that the characteristic   *)
(* polynomial has no positive root, build returns                          *)
(* SolveCharacteristicsEquationFail.                                       *)
(***************************************************************************)
LettersBuilt ==
    /\ letter_costs # Nil
    /\ counter = Nil
    /\ encoding = Nil
    /\ letter_costs.st # "costs"

NoPositiveRoot(costs) == \E j \in 1..Len(costs) : costs[j] = 0

VerifiedRootFailWitness ==
    /\ LettersBuilt
    /\ letter_costs.costs = <<0, 1>>
    /\ letter_costs.st = "Err(SolveCharacteristicsEquationFail)"

(***************************************************************************)
(* C23.  The JSON text of a JimiEncoding, compact or pretty, with or       *)
(* without other data behind it, is read by read_encoding as Some(Ok) of   *)
(* an encoding equal to the one written, tokens, code table and n_letters; *)
(* the char2code of the text written is a list of 2^N lists of letters,    *)
(* the code of each symbol in the order of the symbols.                    *)
(***************************************************************************)
Serialized == cipher # Nil /\ cipher.call = "to_string"

\* The char2code of the JSON value at the start of a text.
WrittenTable(text) ==
    Field(Field(parse_value(text, 1).val, Key_encoding), Key_char2code)

TableOf(je, v) ==
    /\ v.t = "arr"
    /\ Len(v.items) = 2^je.n
    /\ \A b \in Symbols(je.n) :
          Code_deserialize(v.items[b + 1]).code = je.encoding.char2code[b].code

JsonRoundTrip ==
    Serialized =>
        /\ TableOf(jimi, WrittenTable(cipher.out))
        /\ decoded # Nil =>
              /\ decoded.read.st = "Ok"
              /\ decoded.read.jimi = jimi
              /\ cipher.out = to_vec(jimi, cipher.pretty)
                                 \o Rest(cipher.out, decoded.read.pos)

\* Bits8, tokens with escapes, pretty JSON and "some trailing data".
JsonRoundTripWitness ==
    /\ Serialized
    /\ decoded # Nil
    /\ decoded.read.st = "Ok"
    /\ jimi.n = 8
    /\ jimi.tokens[3] = <<92, 34>>
    /\ cipher.pretty
    /\ Len(cipher.out) = decoded.read.pos + 17

(***************************************************************************)
(* C26.  What encode_enclosing_encoding writes is the JSON text of the     *)
(* encoding, one newline and the encoded input; read_encoding, then        *)
(* skip_until_newline, then decode over it give an encoding equal to the   *)
(* one written and write the bytes of the input, for compact and for       *)
(* pretty JSON.                                                            *)
(***************************************************************************)
Enclosed == cipher # Nil /\ cipher.call = "encode_enclosing_encoding"

EnclosedRoundTrip ==
    Enclosed =>
        /\ cipher.out = to_vec(jimi, cipher.pretty) \o <<10>>
                           \o cli_encode(jimi_encoder, jimi.n, plain)
        /\ decoded # Nil =>
              /\ decoded.read.st = "Ok"
              /\ decoded.read.jimi = jimi
              /\ decoded.read.pos = Len(to_vec(jimi, cipher.pretty)) + 1
              /\ decoded.result.st = "Ok"
              /\ decoded.result.written = plain

\* Bits8, pretty JSON, two bytes encoded with tokens one of which is a
\* newline.
EnclosedRoundTripWitness ==
    /\ Enclosed
    /\ decoded # Nil
    /\ decoded.result.st = "Ok"
    /\ jimi.n = 8
    /\ jimi.tokens[1] = <<10>>
    /\ cipher.pretty
    /\ plain = <<182, 0>>

(***************************************************************************)
(* C24.  The Vec of every BitsMap made, by new, by map or by reading a     *)
(* list, has 2^N entries; a list is read as a table exactly when its       *)
(* length is 2^N, with its entries in their order, and a list of any       *)
(* other length gives an error and no table.                               *)
(***************************************************************************)
TableLength ==
    (width # 0 /\ sink # Nil) =>
        /\ Len(arr) = 2^width
        /\ sink.st = "Ok" => sink.vec = arr
        /\ sink.op \in {"new", "map"} => sink.st = "Ok"
        /\ sink.op = "deserialize" =>
              IF sink.given = 2^width
              THEN sink.st = "Ok" /\ sink.vec = ListOf(arr, sink.given)
              ELSE sink.st = "Err: expected 2^N elements" /\ sink.vec = <<>>

\* A list of 2^8 + 1 codes of two letters is refused.
TableLengthWitness ==
    /\ width = 8
    /\ sink # Nil
    /\ sink.op = "deserialize"
    /\ sink.given = 257
    /\ sink.st # "Ok"
    /\ Len(arr[2]) = 2

\* A list of 2^6 codes is read.
TableReadWitness ==
    /\ width = 6
    /\ sink # Nil
    /\ sink.op = "deserialize"
    /\ sink.st = "Ok"
    /\ Len(sink.vec) = 64

(***************************************************************************)
(* C25.  Bits6::iter_bytes of len bytes gives 4 * ceil(len / 3) symbols,   *)
(* each below 64; bit by bit, most significant first, they are the bits    *)
(* of the bytes followed by zero bytes up to a multiple of three; and      *)
(* original_length is len.  The bytes 0x49 0xB6 0x32 0xEA give the symbols *)
(* of test_iter_bytes.                                                     *)
(***************************************************************************)
BitOf(x, j) == (x \div 2^j) % 2

ByteOrZero(a, k) == IF k <= Len(a) THEN a[k] ELSE 0

SlicesOfSix ==
    (width = 6 /\ padded # Nil) =>
        /\ Len(padded.data) = 4 * ((Len(arr) + 2) \div 3)
        /\ \A k \in 1..Len(padded.data) : padded.data[k] \in 0..63
        /\ \A i \in 0..(6 * Len(padded.data) - 1) :
              BitOf(padded.data[(i \div 6) + 1], 5 - (i % 6))
                = BitOf(ByteOrZero(arr, (i \div 8) + 1), 7 - (i % 8))
        /\ padded.original_length = Len(arr)
        /\ arr = <<73, 182, 50, 234>> =>
              padded.data = <<18, 27, 24, 50, 58, 32, 0, 0>>

SlicesOfSixWitness ==
    /\ width = 6
    /\ padded # Nil
    /\ arr = <<73, 182, 50, 234>>
    /\ padded.data[6] = 32
    /\ padded.original_length = 4

(***************************************************************************)
(* C27.  In every call of code with l # r whose edge correction returned,  *)
(* every bucket that is not empty holds symbols of l..r only and spans     *)
(* less than l..r, so that the call made for it is on a smaller range, and *)
(* the build never repeats a call for ever, for every cost vector that     *)
(* LetterCosts::build takes, the vector of one letter among them.          *)
(***************************************************************************)
Traced == encoding # Nil

Shrinks(call) ==
    \A k \in 1..Len(call.parts) :
       call.parts[k] # {} =>
          /\ call.parts[k] \subseteq call.l..call.r
          /\ call.parts[k] # call.l..call.r
          /\ SetMax(call.parts[k]) - SetMin(call.parts[k]) < call.r - call.l

BucketsShrink ==
    Traced =>
        /\ encoding.st # "stack overflow"
        /\ \A i \in 1..Len(encoding.calls) :
              encoding.calls[i].st = "Ok" => Shrinks(encoding.calls[i])

\* The same for the alphabets of two letters and more.
BucketsShrinkOfLetters ==
    (Traced /\ Len(letter_costs.costs) >= 2) =>
        /\ encoding.st # "stack overflow"
        /\ \A i \in 1..Len(encoding.calls) :
              encoding.calls[i].st = "Ok" => Shrinks(encoding.calls[i])

BucketsShrinkWitness ==
    /\ Traced
    /\ Len(letter_costs.costs) = 3
    /\ encoding.st = "Ok"
    /\ Len(encoding.calls) >= 8
    /\ counter.total = 2

(***************************************************************************)
(* C29.  In every call of code with l # r the edge correction returns, l   *)
(* being in the first bucket that is not empty and r in the last when it   *)
(* is applied, and after it no symbol is in two buckets, the buckets       *)
(* together are the symbols of l..r, and the first letter's and the last   *)
(* letter's bucket are not empty.                                          *)
(***************************************************************************)
Corrected(call) ==
    /\ call.st = "Ok"
    /\ \A j, k \in 1..Len(call.parts) : j # k => call.parts[j] \cap call.parts[k] = {}
    /\ UNION {call.parts[k] : k \in 1..Len(call.parts)} = call.l..call.r
    /\ call.parts[1] # {}
    /\ call.parts[Len(call.parts)] # {}

BucketsPartition ==
    Traced => \A i \in 1..Len(encoding.calls) : Corrected(encoding.calls[i])

(***************************************************************************)
(* C28.  For a list of pairs whose codes are not empty and of which none   *)
(* is a prefix of, or equal to, another, build_tree returns Ok with a trie *)
(* in which the letters of each code lead from the root to a Leaf with the *)
(* label of its pair, every proper non-empty prefix of a code leads to an  *)
(* Inner node, every other letter of every node is Invalid, and the map of *)
(* the root and of every Inner node has the alphabet's letters as its      *)
(* keys.                                                                   *)
(***************************************************************************)
TreeAbsent == [tag |-> "Absent", label |-> Nil, map |-> <<>>]

\* The node that the letters of path lead to from the map m, through Inner
\* nodes only.
RECURSIVE NodeAt(_, _)
NodeAt(m, path) ==
    IF path[1] \notin DOMAIN m THEN TreeAbsent
    ELSE IF Len(path) = 1 THEN m[path[1]]
    ELSE IF m[path[1]].tag = "Inner" THEN NodeAt(m[path[1]].map, Tail(path))
    ELSE TreeAbsent

PrefixFreeSet ==
    /\ NoEmptyCode
    /\ \A i, j \in 1..Len(suffice) : i # j => ~IsPrefix(CodeAt(i), CodeAt(j))

\* The node that the trie must hold at the end of path, whose letters but
\* the last lead through Inner nodes.
NodeOf(path) ==
    IF \E k \in 1..Len(suffice) : CodeAt(k) = path
    THEN TreeLeaf(suffice[CHOOSE k \in 1..Len(suffice) : CodeAt(k) = path][1])
    ELSE IF \E k \in 1..Len(suffice) : IsStrictPrefix(path, CodeAt(k))
    THEN [tag |-> "Inner"]
    ELSE TreeInvalid

TrieShape ==
    (Built /\ PrefixFreeSet) =>
        /\ tree.st = "Ok"
        /\ DOMAIN tree.map = code_letters
        /\ \A path \in AllCodes \ {<<>>} :
              LET node == NodeAt(tree.map, path)
              IN  /\ node.tag = "Inner" => DOMAIN node.map = code_letters
                  /\ node.tag # "Absent" =>
                        IF NodeOf(path).tag = "Inner" THEN node.tag = "Inner"
                        ELSE node = NodeOf(path)
        /\ \A k \in 1..Len(suffice) :
              /\ NodeAt(tree.map, CodeAt(k)) = TreeLeaf(suffice[k][1])
              /\ \A n \in 1..(Len(CodeAt(k)) - 1) :
                    NodeAt(tree.map, SubSeq(CodeAt(k), 1, n)).tag = "Inner"

\* Two codes of three letters that share their first two letters.
TrieShapeWitness ==
    /\ Built
    /\ PrefixFreeSet
    /\ Len(suffice) = 2
    /\ Len(CodeAt(1)) = 3
    /\ Len(CodeAt(2)) = 3
    /\ SubSeq(CodeAt(1), 1, 2) = SubSeq(CodeAt(2), 1, 2)
    /\ tree.st = "Ok"
    /\ NodeAt(tree.map, CodeAt(2)) = TreeLeaf(1)

(***************************************************************************)
(* C30.  For a counter with a count, finish returns the table in which,    *)
(* with n0 the number of symbols counted zero times and shared the lesser  *)
(* of 0.05 and 0.005 * n0, a symbol counted zero times has the frequency   *)
(* shared / n0 and every other symbol (count / total) * (1 - shared), all  *)
(* in f32; shared is at most 0.05 and the frequencies of the symbols       *)
(* counted zero times add up to it within 1e-6; with n0 = 0 every          *)
(* frequency is count / total, which for all_equal is 1 / 2^N.             *)
(***************************************************************************)
ZeroCounted == {b \in DOMAIN counter.counts : counter.counts[b] = 0}

F32Min(a, b) == IF F32Lt(b, a) THEN b ELSE a

Shared == F32Min(Lit0_05, F32Mul(Lit0_005, FromInt(Cardinality(ZeroCounted))))

Proportion(b) == F32Div(FromInt(counter.counts[b]), FromInt(counter.total))

\* The frequencies of the symbols counted zero times, added in f32.
ZeroMass ==
    SumFrom([b \in DOMAIN counter.counts |->
                IF b \in ZeroCounted THEN frequency._freq[b] ELSE F32Zero],
            0, F32Zero)

Smoothing ==
    Finished =>
        /\ frequency.st = "Ok"
        /\ \A b \in DOMAIN counter.counts :
              frequency._freq[b] =
                 IF b \in ZeroCounted
                 THEN F32Div(Shared, FromInt(Cardinality(ZeroCounted)))
                 ELSE F32Mul(Proportion(b), F32Sub(F32One, Shared))
        /\ F32Le(Shared, Lit0_05)
        /\ approx(ZeroMass, Shared)
        /\ ZeroCounted = {} =>
              \A b \in DOMAIN counter.counts : frequency._freq[b] = Proportion(b)
        /\ counter = CounterAllEqual(8) =>
              \A b \in DOMAIN counter.counts : frequency._freq[b] = F32(8388608, -31)

\* Bits4 with nine symbols counted zero times: they share 0.045, less than
\* the cap.
SmoothingWitness ==
    /\ Finished
    /\ Cardinality(DOMAIN counter.counts) = 16
    /\ Cardinality(ZeroCounted) = 9
    /\ counter.counts[0] = 3
    /\ frequency.st = "Ok"
    /\ F32Lt(Shared, Lit0_05)

\* Bits8 from all_equal: nothing is shared.
SmoothingAllEqualWitness ==
    /\ Finished
    /\ counter = CounterAllEqual(8)
    /\ frequency.st = "Ok"
    /\ frequency._freq[255] = F32(8388608, -31)

(***************************************************************************)
(* C35.  Before and after every call of count_one and of count on a        *)
(* counter made by empty or all_equal, total is the sum of the counts of   *)
(* all symbols; a call of count_one adds one to the count of one symbol    *)
(* and to total and leaves the count of every other symbol as it was.      *)
(***************************************************************************)
RECURSIVE CountSum(_, _, _)
CountSum(counts, lo, hi) ==
    IF lo > hi THEN 0
    ELSE IF lo = hi THEN counts[lo]
    ELSE CountSum(counts, lo, (lo + hi) \div 2)
         + CountSum(counts, (lo + hi) \div 2 + 1, hi)

TotalIsSum(ctr) == ctr.total = CountSum(ctr.counts, 0, SetMax(DOMAIN ctr.counts))

CountOneAdds ==
    \E b \in DOMAIN counter.counts :
       /\ counter'.counts[b] = counter.counts[b] + 1
       /\ \A o \in DOMAIN counter.counts \ {b} : counter'.counts[o] = counter.counts[o]
       /\ counter'.total = counter.total + 1
       /\ DOMAIN counter'.counts = DOMAIN counter.counts

TotalKept ==
    [][ /\ TotalIsSum(counter)
        /\ TotalIsSum(counter')
        /\ CounterCountOne => CountOneAdds ]_vars

\* A counter made by all_equal of Bits6 after symbol 5 was counted twice
\* and symbol 15 once.
TotalKeptWitness ==
    /\ counter # Nil
    /\ Cardinality(DOMAIN counter.counts) = 64
    /\ counter.counts[5] = 3
    /\ counter.counts[15] = 2
    /\ counter.counts[1] = 1
    /\ counter.total = 67

(***************************************************************************)
(* C39.  An iterator made by closed_interval(l, r) with l <= r gives the   *)
(* symbols l, l + 1, ... in ascending order, each once, no symbol after r, *)
(* and returns None only after it gave r, and from then on; one made by    *)
(* begin_zero does so with l = 0 and r the biggest symbol of the width.    *)
(***************************************************************************)
IterMade == padded # Nil

IterYields ==
    IterMade =>
        /\ sink.items = [i \in 1..Len(sink.items) |-> sink.l + i - 1]
        /\ Len(sink.items) <= sink.r - sink.l + 1
        /\ sink.nones > 0 => Len(sink.items) = sink.r - sink.l + 1
        /\ sink.made = "begin_zero" => sink.l = 0 /\ sink.r = 2^width - 1

\* The interval from 1 to the symbol before the biggest of Bits6, pulled to
\* its end and once more.
IterYieldsWitness ==
    /\ IterMade
    /\ width = 6
    /\ sink.made = "closed_interval"
    /\ sink.l = 1
    /\ sink.r = 62
    /\ Len(sink.items) = 62
    /\ sink.nones = 2

\* begin_zero of Bits8 pulled to its end.
IterZeroWitness ==
    /\ IterMade
    /\ width = 8
    /\ sink.made = "begin_zero"
    /\ Len(sink.items) = 256
    /\ sink.items[256] = 255
    /\ sink.nones = 1

\* An interval that ends at the biggest symbol.
IterBiggestWitness ==
    /\ IterMade
    /\ sink.made = "closed_interval"
    /\ sink.r = 2^width - 1
    /\ sink.l = 7
    /\ sink.nones = 1

(***************************************************************************)
(* C31.  In a JimiEncoder made by from_encoding, encode_bits of every      *)
(* symbol is the tokens of the letters of the symbol's code one after the  *)
(* other in the order of the code; the offset of symbol 0 is 0, the offset *)
(* of every other symbol is the offset of the symbol before it plus that   *)
(* symbol's length, and offset + length of every symbol is at most the     *)
(* length of chunk.                                                        *)
(***************************************************************************)
EncoderMade == jimi_encoder # Nil

SlicesOfChunk ==
    EncoderMade =>
        \A b \in DOMAIN jimi_encoder.char2code :
           LET oc == jimi_encoder.char2code[b]
           IN  /\ oc.offset >= 0
               /\ oc.len >= 0
               /\ oc.offset + oc.len <= Len(jimi_encoder.chunk)
               /\ oc.offset = IF b = 0 THEN 0
                              ELSE jimi_encoder.char2code[b - 1].offset
                                   + jimi_encoder.char2code[b - 1].len
               /\ encode_bits(jimi_encoder, b)
                     = code_tokens(jimi.tokens, jimi.encoding.char2code[b].code)

\* Bits8 with the tokens "a", "bb", "ba": chunk holds 256 codes, of which
\* the last is not empty and is made of tokens of different lengths.
SlicesOfChunkWitness ==
    /\ EncoderMade
    /\ jimi.n = 8
    /\ jimi.tokens = << <<97>>, <<98, 98>>, <<98, 97>> >>
    /\ jimi_encoder.char2code[255].len >= 2
    /\ jimi_encoder.char2code[255].offset + jimi_encoder.char2code[255].len
          = Len(jimi_encoder.chunk)
    /\ encode_bits(jimi_encoder, 255) # encode_bits(jimi_encoder, 254)

(***************************************************************************)
(* C38.  In a code table that Encoding::build returned, for any two        *)
(* symbols x < y the code of x comes before the code of y in the           *)
(* lexicographic order of the letter indices.                              *)
(***************************************************************************)
\* a comes before b: at the first position where they differ a has the
\* lesser letter, or a ends there and b goes on.
Precedes(a, b) ==
    \E i \in 1..Len(b) :
       /\ i <= Len(a) + 1
       /\ SubSeq(a, 1, i - 1) = SubSeq(b, 1, i - 1)
       /\ i <= Len(a) => a[i] < b[i]

OrderPreserving ==
    BuildReturned =>
        \A x, y \in DOMAIN encoding.char2code :
           x < y => Precedes(encoding.char2code[x].code, encoding.char2code[y].code)

\* Three letters of costs 1, 2, 2 and a counter in which symbol 0 was
\* counted once: codes of one to four letters.
OrderPreservingWitness ==
    /\ BuildReturned
    /\ Len(letter_costs.costs) = 3
    /\ counter.total = 1
    /\ counter.counts[0] = 1
    /\ Len(encoding.char2code[0].code) = 1
    /\ Len(encoding.char2code[1].code) = 4
    /\ Len(encoding.char2code[15].code) = 3

(***************************************************************************)
(* C36.  In every state of a LexingIter, after any pulls and calls of      *)
(* cont, the letters of prefix lead from the root through Inner nodes to   *)
(* current_tree; current_tree is the root exactly when prefix is empty;    *)
(* and prefix is a proper prefix of a code of the trie.                    *)
(***************************************************************************)
IterMadeOf == lexer # Nil

PrefixIsPath ==
    IterMadeOf =>
        /\ WalkInner(iter.roots, iter.prefix).ok
        /\ WalkInner(iter.roots, iter.prefix).map = iter.current_tree
        /\ iter.current_tree = iter.roots <=> iter.prefix = <<>>
        /\ \E k \in 1..Len(lexer.codes) : IsStrictPrefix(iter.prefix, lexer.codes[k])

\* Two letters below the root, the second of them read after a cont, and
\* an error returned there: the iterator stays where it was.
PrefixIsPathWitness ==
    /\ IterMadeOf
    /\ Len(iter.prefix) = 2
    /\ hist.conts = 1
    /\ Len(hist.contPrefix) = 1
    /\ Len(hist.out) > hist.cut
    /\ LastItem.kind \in {"Unexpected", "Invalid", "Parent"}

(***************************************************************************)
(* C37.  When the text ends inside a token, the lexer's iterator returns   *)
(* UnexpectedTermination with the same prefix on that pull and on every    *)
(* pull after it, and never None, and every pull of decode_chars from then *)
(* on returns Parent of that error; an iterator that returned None had     *)
(* returned no UnexpectedTermination.                                      *)
(***************************************************************************)
IsTermination(item) == item.kind = "UnexpectedTermination"

\* The first of the items that is an UnexpectedTermination, 0 if none is.
FirstTermination(items) ==
    IF \E k \in 1..Len(items) : IsTermination(items[k])
    THEN CHOOSE k \in 1..Len(items) :
            /\ IsTermination(items[k])
            /\ \A j \in 1..(k - 1) : ~IsTermination(items[j])
    ELSE 0

LexerPulls == Len(cipher.text) + MaxText + 1

IsParentOf(item, e) == item.kind = "Parent" /\ item.err = e

TerminationRepeats ==
    TextDecoded =>
        LET first == FirstTermination(decoded.lexed)
        IN  IF first = 0
            THEN \A k \in 1..Len(decoded.chars) :
                    decoded.chars[k].kind = "Parent" =>
                       ~IsTermination(decoded.chars[k].err)
            ELSE /\ decoded.lexed[first].prefix # <<>>
                 /\ Len(decoded.lexed) = LexerPulls
                 /\ \A k \in first..Len(decoded.lexed) :
                       decoded.lexed[k] = decoded.lexed[first]
                 /\ Len(decoded.chars) = MaxText + 1
                 /\ IsParentOf(Last(decoded.chars), decoded.lexed[first])
                 /\ \A k \in 1..Len(decoded.chars) :
                       IsParentOf(decoded.chars[k], decoded.lexed[first]) =>
                          \A j \in k..Len(decoded.chars) :
                             decoded.chars[j] = decoded.chars[k]

\* "ab" for the tokens "a", "bb", "ba": after the letter of "a" the lexer
\* is left inside a token, and every pull but the first gives the error.
TerminationRepeatsWitness ==
    /\ TextDecoded
    /\ cipher.text = <<97, 98>>
    /\ jimi.tokens = << <<97>>, <<98, 98>>, <<98, 97>> >>
    /\ FirstTermination(decoded.lexed) = 2
    /\ Len(decoded.lexed) = LexerPulls
    /\ Len(decoded.chars) = MaxText + 1
    /\ \A k \in 2..(MaxText + 1) : IsParentOf(decoded.chars[k], decoded.lexed[2])


(***************************************************************************)
(* C32: for a valid UTF-8 honey-water text, what cli::decode writes and    *)
(* returns does not depend on how the reader splits the input into reads:  *)
(* every sequence of non-empty reads, also reads that end inside a         *)
(* character or give less than one whole character, gives what decoding    *)
(* the whole text with one read gives.                                     *)
(***************************************************************************)
\* decode was called for the honey water of plain.
DecodedHoney ==
    /\ cipher # Nil
    /\ cipher.call = "decode"
    /\ cipher.out = cli_encode(jimi_encoder, jimi.n, plain)

\* The result of decode is that of one read of the whole text.
AsOneRead ==
    /\ decoded.lp.ret = cli_decode(jimi_decoder, jimi.n, cipher.out).st
    /\ decoded.lp.written = cli_decode(jimi_decoder, jimi.n, cipher.out).written

SplitsAgree == DecodedHoney => AsOneRead

\* The same for the reads after each of which buf holds a whole character.
SplitsAgreeOfWholeChars ==
    (DecodedHoney /\ decoded.lp.ret # "Err: input is not valid UTF-8") => AsOneRead

SplitsAgreeWitness ==
    /\ DecodedHoney
    /\ Len(cipher.reads) > 2
    /\ decoded.lp.written = <<182>>
    /\ \E k \in 1..Len(decoded.seen) : decoded.seen[k]

(***************************************************************************)
(* C33: cli::decode returns Ok exactly when no chunk gives a hard error    *)
(* and the input ends at the end of a code with no bytes of an incomplete  *)
(* character kept; an UnexpectedTermination at the end of a chunk is not   *)
(* reported when a later chunk completes the code and is reported when     *)
(* the input ends there.                                                   *)
(***************************************************************************)
\* The text is valid UTF-8 and a sequence of whole codes: decoding its
\* characters gives no error.
EndsOnCode(text) ==
    /\ from_utf8(text, 1, <<>>).valid_up_to = Len(text)
    /\ decode(jimi_decoder, jimi.n, from_utf8(text, 1, <<>>).chars, <<>>).st = "Ok"

\* The last read left a termination error and no bytes in buf.
EndsThere ==
    /\ Len(decoded.seen) = Len(cipher.reads)
    /\ Len(decoded.seen) > 0
    /\ decoded.seen[Len(decoded.seen)]
    /\ Len(decoded.lp.buf) = 0

OkOfWholeCodes ==
    /\ decoded.lp.ret = "Ok" <=> EndsOnCode(cipher.out)
    /\ EndsThere => decoded.lp.ret = "Err: error parsing honey water"

OkExactly == (cipher # Nil /\ cipher.call = "decode") => OkOfWholeCodes

\* The same for the reads after each of which buf holds a whole character.
OkExactlyOfWholeChars ==
    (/\ cipher # Nil
     /\ cipher.call = "decode"
     /\ decoded.lp.ret # "Err: input is not valid UTF-8") => OkOfWholeCodes

\* A termination error of a chunk that a later chunk made good.
OkExactlyWitness ==
    /\ cipher # Nil
    /\ cipher.call = "decode"
    /\ decoded.lp.ret = "Ok"
    /\ \E k \in 1..Len(decoded.seen) : decoded.seen[k]

\* A termination error at the end of the input.
OkExactlyEndWitness ==
    /\ cipher # Nil
    /\ cipher.call = "decode"
    /\ EndsThere
    /\ Len(cipher.reads) > 1

(***************************************************************************)
(* C34: in cli::run, Decode without --encoding-file of an input that does  *)
(* not begin with a JSON encoding takes the encoding of equal frequencies  *)
(* and decodes the whole input from its first byte: the failed read of an  *)
(* enclosed encoding leaves the place of the reader as it was.             *)
(***************************************************************************)
\* run was called and read_encoding did not return Some(Ok(..)).
RunFellBack == cipher # Nil /\ cipher.call = "run" /\ decoded.read # "Ok"

FallBackFromStart ==
    RunFellBack =>
        /\ decoded.from = 1
        /\ decoded.ret =
              cli_decode(JimiDecoder_from_encoding(jimi), jimi.n, cipher.out).st
        /\ decoded.written =
              cli_decode(JimiDecoder_from_encoding(jimi), jimi.n, cipher.out).written

\* The enclosed encoding is read and the input behind it decoded.
RunEnclosed ==
    (cipher # Nil /\ cipher.call = "run" /\ decoded.read = "Ok") =>
        /\ decoded.ret = "Ok"
        /\ decoded.written = plain

RunFellBackWitness == RunFellBack /\ Len(cipher.out) > 0

RunEnclosedWitness ==
    cipher # Nil /\ cipher.call = "run" /\ decoded.read = "Ok" /\ plain = <<182>>

=============================================================================
